---------------------------- MODULE Spec2Model ----------------------------
(***************************************************************************)
(* Model of the dhruva.ai discovery pipeline (api/discovery route):        *)
(*   - the gap-phase report normalisation (POST, normaliseGapAnalysis),    *)
(*   - the success-pattern derivation (findGoldenStep, tenureInYears,      *)
(*     impactDensity, deriveSuccessPattern).                                *)
(*                                                                         *)
(* A JavaScript string is a sequence of lexemes: each structural character *)
(* (brace, bracket, colon, comma, quote, backslash, backtick, space, %, $)  *)
(* is one lexeme, and a run of letters or of digits is one lexeme.         *)
(* A JavaScript value is a tagged record.                                  *)
(***************************************************************************)
EXTENDS Integers, Sequences, FiniteSets, TLC

VARIABLES
  \* gap phase of POST
  upstream,     \* the completion the gap model returned (kept for reference)
  gpc,          \* position in the gap phase of POST
  content,      \* `content`: the completion text being coerced
  gapAnalysis,  \* `gapAnalysis`
  response,     \* the NextResponse returned by POST
  \* deriveSuccessPattern
  ppc,          \* position in deriveSuccessPattern
  profiles, targetRole, targetCompany, now,
  pidx,         \* how many profiles the for-loop has been through
  golden,       \* `golden` of the last turn of the loop
  goldenRoles, tenures, impactScores, allSkills,
  pattern,      \* the SuccessPattern returned
  \* impactDensity
  ipc, itext, idensity,
  \* the report endpoint (api/report route)
  rpc,          \* position in the report POST
  request,      \* the request body and whether the logo file can be read
  blocks,       \* what is still to be drawn, in order
  bidx,         \* the block to draw next
  cursorY,      \* `cursorY`, in thousandths of a point
  pages,        \* pages of the document
  col, rowTopY, \* `col` and `rowTopY` of the career-anchor cards
  drawn,        \* the text block drawn last
  logoDrawn,    \* whether the logo was drawn
  reply,        \* the Response returned by the report POST
  \* the CV upload (handleParse, parsePdfWithAI)
  cpc,          \* position in handleParse and parsePdfWithAI
  entry,        \* "form": called by handleParse; "action": the action called directly
  upload,       \* the file chosen in the form, or what the form data holds as "pdf"
  envKey,       \* process.env.OPENAI_API_KEY
  extracted,    \* whether extractText has been called
  calls,        \* the calls of callOpenAI so far: time and outcome
  clock,        \* milliseconds since the request began waiting
  caught,       \* the error on its way to the catch
  completion,   \* `completion`
  result,       \* what parsePdfWithAI returns
  parsing, uiError, uiParsed,  \* state of the upload form
  \* the discovery endpoint (POST of the two-phase route)
  dpc,          \* position in POST
  dreq,         \* the request body
  denv,         \* which of the three API keys process.env holds
  outbound,     \* the outbound network calls made for the request so far
  rawCount,     \* rawResults.length
  targetCount,  \* targetResults.length
  peers,        \* the peer companies suggested
  peerIdx,      \* position of the loop over the peers
  similarCount, \* similarResults.length
  dresp,        \* the response returned
  \* the discovery route with the cache
  cache,        \* the Map: key to the stored object
  heap,         \* the result objects allocated so far, with the request that made each
  creq,         \* the requests: position, body, locals, calls sent, response
  cenv,         \* which of the two API keys process.env holds
  arrived,      \* number of requests received so far
  \* mapFiberProfile
  fpc,          \* "call" before the call, "done" after it
  fiberRaw,     \* the record of the people search that is mapped
  mappedProfile, \* what the call returned, or that it threw
  \* safeSectionText
  spc,          \* "call" before the call, "done" after it
  sectionValue, \* the value passed
  sectionText,  \* what the call returned, or that it threw
  \* the fit percentage of one trajectoryFit text
  fitpc,        \* "show" before the two views are made, "done" after
  fitText,      \* the trajectoryFit of the normalised report
  pdfScore,     \* the percentage drawn in the PDF; -1 when no bar is drawn
  dashScore,    \* the percentage shown on the dashboard; -1 when none is shown
  \* updateSession
  upc,          \* position in updateSession
  visit,        \* the request: its path and whether its cookies belong to a user
  supabaseEnv,  \* NEXT_PUBLIC_SUPABASE_URL and NEXT_PUBLIC_SUPABASE_ANON_KEY
  userAsked,    \* whether supabase.auth.getUser() was called
  answer,       \* what updateSession returned
  \* the earlier report renderer
  epc,          \* position in the earlier POST
  ereport,      \* the request: how many lines each part of the report wraps to
  eblocks,      \* the draw calls and cursor moves the request leads to
  eidx,         \* the next of them
  ecursorY,     \* cursorY
  epages,       \* the number of pages of pdfDoc
  edrawn,       \* the page and height of the text drawn last
  ereply,       \* the status of the response, 0 before it
  \* handleSave of the upload form
  vpc,          \* "ready" for a click, "await" during the server call, "ended" after
  formParsed,   \* parsed: the CV shown, or null
  saving,       \* the busy flag of the save button
  formError,    \* error: the message shown, <<>> for null
  saveSuccess,  \* whether the success note is shown
  clicks,       \* clicks on the save button so far
  \* the awaits of one discovery request
  qreq,         \* the route, the mode and the API keys of the request
  qstage,       \* the call the handler has come to, "done" after the response
  qawait,       \* whether the handler is suspended at an await
  qpeers,       \* the peer companies suggested
  qidx,         \* position of the loop over the peers
  flying,       \* the outbound calls issued and not yet settled
  qlog          \* the calls issued so far, in order

gapVars == <<upstream, gpc, content, gapAnalysis, response>>
patVars == <<ppc, profiles, targetRole, targetCompany, now, pidx, golden,
             goldenRoles, tenures, impactScores, allSkills, pattern>>
impVars == <<ipc, itext, idensity>>
renVars == <<rpc, request, blocks, bidx, cursorY, pages, col, rowTopY, drawn,
             logoDrawn, reply>>
cvVars == <<cpc, entry, upload, envKey, extracted, calls, clock, caught, completion,
            result, parsing, uiError, uiParsed>>
discVars == <<dpc, dreq, denv, outbound, rawCount, targetCount, peers, peerIdx,
              similarCount, dresp>>
cacheVars == <<cache, heap, creq, cenv, arrived>>
mapVars == <<fpc, fiberRaw, mappedProfile>>
sectVars == <<spc, sectionValue, sectionText>>
fitVars == <<fitpc, fitText, pdfScore, dashScore>>
authVars == <<upc, visit, supabaseEnv, userAsked, answer>>
earlyVars == <<epc, ereport, eblocks, eidx, ecursorY, epages, edrawn, ereply>>
formVars == <<vpc, formParsed, saving, formError, saveSuccess, clicks>>
flightVars == <<qreq, qstage, qawait, qpeers, qidx, flying, qlog>>
vars == <<gapVars, patVars, impVars, renVars, cvVars, discVars, cacheVars, mapVars, sectVars, fitVars, authVars, earlyVars, formVars, flightVars>>

---------------------------------------------------------------------------
(* Lexemes and strings *)

QUOTE == "\""
BSLASH == "\\"
TICK == "^"               \* the backtick character
SP == " "

\* the lexemes of s at the positions that satisfy Keep, in order
Keeping(s, Keep(_)) ==
  LET kept == SelectSeq([k \in 1..Len(s) |-> k], Keep)
  IN [j \in 1..Len(kept) |-> s[kept[j]]]

\* how many lexemes equal to c stand immediately before position k (after lo)
RunBefore(s, k, c, lo) ==
  CHOOSE n \in 0..(k - lo) :
    /\ \A d \in 1..n : s[k - d] = c
    /\ (n = k - lo \/ s[k - n - 1] # c)

\* how many lexemes equal to c stand immediately after position k
RunAfter(s, k, c) ==
  CHOOSE n \in 0..(Len(s) - k) :
    /\ \A d \in 1..n : s[k + d] = c
    /\ (n = Len(s) - k \/ s[k + n + 1] # c)

\* String.prototype.trim over the whitespace lexeme
TrimStart(s) == SubSeq(s, 1 + RunAfter(s, 0, SP), Len(s))

TrimEnd(s) == SubSeq(s, 1, Len(s) - RunBefore(s, Len(s) + 1, SP, 1))

Trim(s) == TrimEnd(TrimStart(s))

\* String.prototype.toLowerCase, lexeme by lexeme
LowerLex(c) ==
  CASE c = "A" -> "a"
    [] c = "B" -> "b"
    [] c = "JSON" -> "json"
    [] c = "Json" -> "json"
    [] c = "Rate" -> "rate"
    [] c = "Limit" -> "limit"
    [] c = "Incorrect" -> "incorrect"
    [] c = "API" -> "api"
    [] c = "Network" -> "network"
    [] c = "High" -> "high"
    [] c = "Moderate" -> "moderate"
    [] c = "Low" -> "low"
    [] c = "Strong" -> "strong"
    [] c = "Weak" -> "weak"
    [] OTHER -> c

ToLowerCase(s) == [k \in 1..Len(s) |-> LowerLex(s[k])]

\* String.prototype.includes
Includes(s, sub) ==
  \E k \in 0..(Len(s) - Len(sub)) : SubSeq(s, k + 1, k + Len(sub)) = sub

\* String.prototype.startsWith for a one-lexeme prefix
StartsWith(s, c) == s # <<>> /\ Head(s) = c

---------------------------------------------------------------------------
(* JavaScript values *)

Undefined == [t |-> "undefined"]
Null == [t |-> "null"]
Bool(b) == [t |-> "boolean", b |-> b]
Num(n) == [t |-> "number", n |-> n]       \* n: decimal lexeme of the number
StrV(s) == [t |-> "string", s |-> s]
Arr(es) == [t |-> "array", a |-> es]
Obj(ms) == [t |-> "object", m |-> ms]     \* ms: sequence of <<key, value>>

IsString(v) == v.t = "string"
IsArray(v) == v.t = "array"
\* typeof v === "object"
TypeofObject(v) == v.t \in {"object", "array", "null"}
\* v && typeof v === "object"
IsObjectLike(v) == v.t \in {"object", "array"}

HasOwn(v, key) == v.t = "object" /\ \E k \in 1..Len(v.m) : v.m[k][1] = key

\* property read v.key on a value that JSON.parse produced: the last own
\* member of that name (later duplicates overwrite), undefined otherwise
Get(v, key) ==
  IF HasOwn(v, key)
  THEN LET k == CHOOSE k \in 1..Len(v.m) :
                  v.m[k][1] = key /\ \A j \in (k + 1)..Len(v.m) : v.m[j][1] # key
       IN v.m[k][2]
  ELSE Undefined

NumLex == {"1", "7", "42"}

---------------------------------------------------------------------------
(* JSON.parse *)

ParseFail == [ok |-> FALSE, v |-> Undefined, i |-> 0]
ParseOk(v, i) == [ok |-> TRUE, v |-> v, i |-> i]

\* the first position from i on that holds no whitespace
SkipWs(s, i) == i + RunAfter(s, i - 1, SP)

\* position k of s holds a backslash that escapes the lexeme after it: the
\* backslashes before it (from lo on) pair up
Escaper(s, k, lo) == s[k] = BSLASH /\ RunBefore(s, k, BSLASH, lo) % 2 = 0

\* position j holds the quote that closes the literal whose text starts at i
Closes(s, j, i) == s[j] = QUOTE /\ RunBefore(s, j, BSLASH, i) % 2 = 0

\* the string literal whose text starts at position i, after the opening
\* quote: it runs to the first quote that no backslash escapes; \" and \\ are
\* the escapes, any other lexeme after an escaping backslash is an error
ParseChars(s, i) ==
  IF ~\E j \in i..Len(s) : Closes(s, j, i) THEN ParseFail
  ELSE LET j == CHOOSE j \in i..Len(s) :
                  Closes(s, j, i) /\ \A k \in i..(j - 1) : ~Closes(s, k, i)
           body == SubSeq(s, i, j - 1)
           Plain(k) == ~Escaper(body, k, 1)
       IN IF \E k \in 1..Len(body) :
               Escaper(body, k, 1) /\ body[k + 1] \notin {QUOTE, BSLASH}
          THEN ParseFail
          ELSE ParseOk(StrV(Keeping(body, Plain)), j + 1)

RECURSIVE ParseValue(_, _)
RECURSIVE ParseMembers(_, _, _)
RECURSIVE ParseElems(_, _, _)

\* after a member or an element: the closing lexeme, or a comma and more
MemberEnd(s, e, acc) ==
  IF e > Len(s) THEN ParseFail
  ELSE IF s[e] = "}" THEN ParseOk(Obj(acc), e + 1)
  ELSE IF s[e] = "," THEN ParseMembers(s, e + 1, acc)
  ELSE ParseFail

MemberValue(s, key, val, acc) ==
  IF ~val.ok THEN ParseFail
  ELSE MemberEnd(s, SkipWs(s, val.i), Append(acc, <<key, val.v>>))

MemberColon(s, key, c, acc) ==
  IF c > Len(s) \/ s[c] # ":" THEN ParseFail
  ELSE MemberValue(s, key, ParseValue(s, c + 1), acc)

MemberKey(s, key, acc) ==
  IF ~key.ok THEN ParseFail
  ELSE MemberColon(s, key.v.s, SkipWs(s, key.i), acc)

MembersAt(s, j, acc) ==
  IF j > Len(s) THEN ParseFail
  ELSE IF s[j] = "}" /\ acc = <<>> THEN ParseOk(Obj(acc), j + 1)
  ELSE IF s[j] # QUOTE THEN ParseFail
  ELSE MemberKey(s, ParseChars(s, j + 1), acc)

\* members of an object from position i (after "{" or ","); a "}" closes the
\* object here only when no member was read (no trailing comma)
ParseMembers(s, i, acc) == MembersAt(s, SkipWs(s, i), acc)

ElemEnd(s, e, acc) ==
  IF e > Len(s) THEN ParseFail
  ELSE IF s[e] = "]" THEN ParseOk(Arr(acc), e + 1)
  ELSE IF s[e] = "," THEN ParseElems(s, e + 1, acc)
  ELSE ParseFail

ElemValue(s, val, acc) ==
  IF ~val.ok THEN ParseFail
  ELSE ElemEnd(s, SkipWs(s, val.i), Append(acc, val.v))

ElemsAt(s, j, acc) ==
  IF j > Len(s) THEN ParseFail
  ELSE IF s[j] = "]" /\ acc = <<>> THEN ParseOk(Arr(acc), j + 1)
  ELSE ElemValue(s, ParseValue(s, j), acc)

ParseElems(s, i, acc) == ElemsAt(s, SkipWs(s, i), acc)

ValueAt(s, j) ==
  IF j > Len(s) THEN ParseFail
  ELSE IF s[j] = "{" THEN ParseMembers(s, j + 1, <<>>)
  ELSE IF s[j] = "[" THEN ParseElems(s, j + 1, <<>>)
  ELSE IF s[j] = QUOTE THEN ParseChars(s, j + 1)
  ELSE IF s[j] = "null" THEN ParseOk(Null, j + 1)
  ELSE IF s[j] = "true" THEN ParseOk(Bool(TRUE), j + 1)
  ELSE IF s[j] = "false" THEN ParseOk(Bool(FALSE), j + 1)
  ELSE IF s[j] \in NumLex THEN ParseOk(Num(s[j]), j + 1)
  ELSE ParseFail

ParseValue(s, i) == ValueAt(s, SkipWs(s, i))

\* the whole text is one value, whitespace around it allowed
WholeText(s, r) == IF r.ok /\ SkipWs(s, r.i) = Len(s) + 1 THEN r ELSE ParseFail

\* JSON.parse(s): [ok |-> FALSE] stands for the SyntaxError it throws
JSONParse(s) == WholeText(s, ParseValue(s, 1))

\* try { x = JSON.parse(s) } catch { keep x }
OrElse(p, kept) == IF p.ok THEN p.v ELSE kept

---------------------------------------------------------------------------
(* JSON.stringify *)

\* quote and backslash are written with a backslash before them
RECURSIVE Escape(_)
Escape(s) ==
  IF s = <<>> THEN <<>>
  ELSE IF Len(s) = 1
       THEN IF s[1] \in {QUOTE, BSLASH} THEN <<BSLASH, s[1]>> ELSE s
       ELSE Escape(SubSeq(s, 1, Len(s) \div 2))
            \o Escape(SubSeq(s, Len(s) \div 2 + 1, Len(s)))

Quoted(s) == <<QUOTE>> \o Escape(s) \o <<QUOTE>>

RECURSIVE Stringify(_)
RECURSIVE StringifyMembers(_, _)
RECURSIVE StringifyElems(_)

StringifyMembers(ms, first) ==
  IF ms = <<>> THEN <<>>
  ELSE IF Head(ms)[2].t = "undefined" THEN StringifyMembers(Tail(ms), first)
  ELSE (IF first THEN <<>> ELSE <<",">>)
       \o Quoted(Head(ms)[1]) \o <<":">> \o Stringify(Head(ms)[2])
       \o StringifyMembers(Tail(ms), FALSE)

StringifyElems(es) ==
  IF es = <<>> THEN <<>>
  ELSE Stringify(Head(es))
       \o (IF Len(es) > 1 THEN <<",">> ELSE <<>>)
       \o StringifyElems(Tail(es))

Stringify(v) ==
  CASE v.t = "string" -> Quoted(v.s)
    [] v.t = "number" -> <<v.n>>
    [] v.t = "boolean" -> IF v.b THEN <<"true">> ELSE <<"false">>
    [] v.t = "null" -> <<"null">>
    [] v.t = "undefined" -> <<"null">>
    [] v.t = "array" -> <<"[">> \o StringifyElems(v.a) \o <<"]">>
    [] v.t = "object" -> <<"{">> \o StringifyMembers(v.m, TRUE) \o <<"}">>

---------------------------------------------------------------------------
(* String(v) and the helpers of normaliseGapAnalysis *)

Thrown == [ok |-> FALSE]
Ret(x) == [ok |-> TRUE, v |-> x]

\* sequencing of computations that may throw
Map(r, F(_)) == IF r.ok THEN Ret(F(r.v)) ELSE Thrown
Then(r, Step(_)) == IF r.ok THEN Step(r.v) ELSE Thrown
Both(h, r, F(_, _)) == IF h.ok /\ r.ok THEN Ret(F(h.v, r.v)) ELSE Thrown

Nullish(v) == v.t \in {"null", "undefined"}

RECURSIVE ToStringJS(_)
RECURSIVE JoinJS(_)

\* Array.prototype.join(","): null and undefined elements give ""
JoinJS(es) ==
  IF es = <<>> THEN Ret(<<>>)
  ELSE LET Glue(h, t) == h \o (IF Len(es) > 1 THEN <<",">> ELSE <<>>) \o t
       IN Both(IF Nullish(Head(es)) THEN Ret(<<>>) ELSE ToStringJS(Head(es)),
               JoinJS(Tail(es)), Glue)

\* String(v).  An object is converted through its toString and valueOf: an
\* own member named toString (never callable in parsed JSON) hides
\* Object.prototype.toString, valueOf then yields no primitive, and the
\* conversion throws a TypeError.
ToStringJS(v) ==
  CASE v.t = "string" -> Ret(v.s)
    [] v.t = "number" -> Ret(<<v.n>>)
    [] v.t = "boolean" -> Ret(IF v.b THEN <<"true">> ELSE <<"false">>)
    [] v.t = "null" -> Ret(<<"null">>)
    [] v.t = "undefined" -> Ret(<<"undefined">>)
    [] v.t = "array" -> JoinJS(v.a)
    [] v.t = "object" ->
         IF HasOwn(v, <<"toString">>) THEN Thrown
         ELSE Ret(<<"[", "object", SP, "Object", "]">>)

\* const str = (v) => typeof v === "string" ? v.trim() : v != null ? String(v) : ""
str(v) ==
  IF v.t = "string" THEN Ret(Trim(v.s))
  ELSE IF ~Nullish(v) THEN ToStringJS(v)
  ELSE Ret(<<>>)

\* arr.map((x) => str(x)).filter(Boolean)
RECURSIVE StrList(_)
StrList(es) ==
  IF es = <<>> THEN Ret(<<>>)
  ELSE LET Cons(h, t) == (IF h # <<>> THEN <<h>> ELSE <<>>) \o t
       IN Both(str(Head(es)), StrList(Tail(es)), Cons)

\* one element of missingTechnical
TechEntry(t) ==
  IF IsObjectLike(t) /\ HasOwn(t, <<"name">>)
  THEN LET Named(n) ==
             [name |-> n,
              resourceUrl |-> IF IsString(Get(t, <<"resourceUrl">>))
                              THEN Get(t, <<"resourceUrl">>) ELSE Undefined]
       IN Map(str(Get(t, <<"name">>)), Named)
  ELSE LET Bare(n) == [name |-> n, resourceUrl |-> Undefined]
       IN Map(str(t), Bare)

\* sg.missingTechnical.map(...).filter((t) => t.name)
RECURSIVE TechList(_)
TechList(es) ==
  IF es = <<>> THEN Ret(<<>>)
  ELSE LET Cons(h, t) == (IF h.name # <<>> THEN <<h>> ELSE <<>>) \o t
       IN Both(TechEntry(Head(es)), TechList(Tail(es)), Cons)

\* the skillGaps object built from sg
SkillGapsOf(sg) ==
  LET mt == Get(sg, <<"missingTechnical">>)
      ms == Get(sg, <<"missingSoft">>)
      Pair(tech, soft) == [missingTechnical |-> tech, missingSoft |-> soft]
  IN Both(IF IsArray(mt) THEN TechList(mt.a) ELSE Ret(<<>>),
          IF IsArray(ms) THEN StrList(ms.a) ELSE Ret(<<>>), Pair)

EmptyReport ==
  [overallSummary |-> <<>>, trajectoryFit |-> <<>>, careerAnchors |-> <<>>,
   skillGaps |-> [missingTechnical |-> <<>>, missingSoft |-> <<>>],
   concreteActions |-> <<>>]

FirstIndex(s, c) == CHOOSE k \in 1..Len(s) : s[k] = c /\ \A j \in 1..(k - 1) : s[j] # c
LastIndex(s, c) == CHOOSE k \in 1..Len(s) : s[k] = c /\ \A j \in (k + 1)..Len(s) : s[j] # c
Has(s, c) == \E k \in 1..Len(s) : s[k] = c

\* s.replace(/^[\s\S]*?\{/, "{").replace(/\}[\s\S]*$/, "}"): the text from
\* the first { up to the first }
BraceSpan(t) ==
  LET r1 == SubSeq(t, FirstIndex(t, "{"), Len(t))
  IN IF Has(r1, "}") THEN SubSeq(r1, 1, FirstIndex(r1, "}")) ELSE r1

\* tryParseJsonString
tryParseJsonString(s) ==
  IF ~IsString(s) \/ ~StartsWith(Trim(s.s), "{") THEN s
  ELSE OrElse(JSONParse(BraceSpan(s.s)), s)

---------------------------------------------------------------------------
(* normaliseGapAnalysis *)

\* if (Array.isArray(src.careerAnchors)) out.careerAnchors = ...
SetAnchors(o, src) ==
  LET a == Get(src, <<"careerAnchors">>)
      Put(l) == [o EXCEPT !.careerAnchors = l]
  IN IF ~IsArray(a) THEN Ret(o) ELSE Map(StrList(a.a), Put)

\* if (src.skillGaps && typeof src.skillGaps === "object") out.skillGaps = ...
SetSkillGaps(o, src) ==
  LET sg == Get(src, <<"skillGaps">>)
      Put(g) == [o EXCEPT !.skillGaps = g]
  IN IF ~IsObjectLike(sg) THEN Ret(o) ELSE Map(SkillGapsOf(sg), Put)

\* if (Array.isArray(src.concreteActions)) out.concreteActions = ...
SetActions(o, src) ==
  LET a == Get(src, <<"concreteActions">>)
      Put(l) == [o EXCEPT !.concreteActions = l]
  IN IF ~IsArray(a) THEN Ret(o) ELSE Map(StrList(a.a), Put)

\* if (inner.overallSummary != null) out.overallSummary = str(inner.overallSummary)
InnerSummary(o, inner) ==
  LET v == Get(inner, <<"overallSummary">>)
      Put(x) == [o EXCEPT !.overallSummary = x]
  IN IF Nullish(v) THEN Ret(o) ELSE Map(str(v), Put)

\* if (inner.trajectoryFit != null) out.trajectoryFit = str(inner.trajectoryFit)
InnerTrajectory(o, inner) ==
  LET v == Get(inner, <<"trajectoryFit">>)
      Put(x) == [o EXCEPT !.trajectoryFit = x]
  IN IF Nullish(v) THEN Ret(o) ELSE Map(str(v), Put)

\* if (!out.trajectoryFit) out.trajectoryFit = str(obj.trajectoryFit)
OuterTrajectory(o, obj) ==
  LET Put(x) == [o EXCEPT !.trajectoryFit = x]
  IN IF o.trajectoryFit # <<>> THEN Ret(o)
     ELSE Map(str(Get(obj, <<"trajectoryFit">>)), Put)

\* one statement of a try block: r is the block so far, [ok |-> FALSE] once a
\* statement has thrown, with what was assigned before it
TryStep(r, Step(_)) ==
  IF ~r.ok THEN r
  ELSE IF Step(r.v).ok THEN Step(r.v)
  ELSE [ok |-> FALSE, v |-> r.v]

\* catch { out.overallSummary = overallStr }
Caught(r, overallStr) ==
  IF r.ok THEN r.v ELSE [r.v EXCEPT !.overallSummary = overallStr]

\* the statements of the try block, for the parsed inner object
UnwrapInner(o, inner, overallStr) ==
  LET S1(x) == InnerSummary(x, inner)
      S2(x) == InnerTrajectory(x, inner)
      S3(x) == SetAnchors(x, inner)
      S4(x) == SetSkillGaps(x, inner)
      S5(x) == SetActions(x, inner)
  IN Caught(TryStep(TryStep(TryStep(TryStep(TryStep(Ret(o), S1), S2), S3), S4), S5),
            overallStr)

\* the try / catch around the nested JSON of overallSummary
UnwrapParsed(o, p, overallStr) ==
  IF ~p.ok THEN [o EXCEPT !.overallSummary = overallStr]
  ELSE UnwrapInner(o, p.v, overallStr)

UnwrapOverall(o, overallStr) == UnwrapParsed(o, JSONParse(overallStr), overallStr)

\* const obj = parsed && typeof parsed === "object" ? parsed : { overallSummary: str(raw) }
ObjectOf(raw, parsed) ==
  IF IsObjectLike(parsed) THEN parsed
  ELSE Obj(<< <<<<"overallSummary">>, StrV(str(raw).v)>> >>)

\* the body of normaliseGapAnalysis once obj is known
NormaliseFields(obj) ==
  LET Start(overallStr) ==
        Ret(IF StartsWith(overallStr, "{")
            THEN UnwrapOverall([EmptyReport EXCEPT !.overallSummary = overallStr],
                               overallStr)
            ELSE [EmptyReport EXCEPT !.overallSummary = overallStr])
      S1(o) == OuterTrajectory(o, obj)
      S2(o) == SetAnchors(o, obj)
      S3(o) == SetSkillGaps(o, obj)
      S4(o) == SetActions(o, obj)
  IN Then(Then(Then(Then(Then(str(Get(obj, <<"overallSummary">>)), Start),
                         S1), S2), S3), S4)

\* normaliseGapAnalysis(raw): Ret(out), or Thrown when a conversion outside
\* the try block throws
normaliseGapAnalysis(raw) == NormaliseFields(ObjectOf(raw, tryParseJsonString(raw)))

---------------------------------------------------------------------------
(* The gap phase of POST: coercing the completion into a report *)

\* text.replace(/```json/gi, ""): the matches are found left to right, so a
\* run of backticks followed by "json" loses its last three backticks and
\* the word
RemoveJsonFences(s) ==
  LET IsJson(k) == k <= Len(s) /\ LowerLex(s[k]) = "json"
      Removed(k) ==
        \/ IsJson(k) /\ RunBefore(s, k, TICK, 1) >= 3
        \/ /\ s[k] = TICK
           /\ RunAfter(s, k, TICK) <= 2
           /\ RunBefore(s, k, TICK, 1) + RunAfter(s, k, TICK) >= 2
           /\ IsJson(k + RunAfter(s, k, TICK) + 1)
      Kept(k) == ~Removed(k)
  IN Keeping(s, Kept)

\* text.replace(/```/g, ""): each run of backticks loses its leading groups
\* of three
RemoveFences(s) ==
  LET Removed(k) ==
        /\ s[k] = TICK
        /\ LET p == RunBefore(s, k, TICK, 1) + 1
               l == p + RunAfter(s, k, TICK)
           IN p <= 3 * (l \div 3)
      Kept(k) == ~Removed(k)
  IN Keeping(s, Kept)

stripFences(text) == Trim(RemoveFences(RemoveJsonFences(text)))

NoResponse == [status |-> 0]
JsonOk(g) == [status |-> 200, gapAnalysis |-> g]
JsonError(msg) == [status |-> 500, error |-> msg]

\* return NextResponse.json({ gapAnalysis }), or the catch of POST:
\* NextResponse.json({ error: e?.message || "Discovery failed" }, { status: 500 })
Respond(r) ==
  IF r.ok THEN JsonOk(r.v)
  ELSE JsonError("Cannot convert object to primitive value")

\* a fallback that loses the text
FallbackLosingText(text) == Obj(<<>>)

\* the report of the final fallback, as a JavaScript object
FallbackObject(text) ==
  Obj(<< <<<<"overallSummary">>, StrV(text)>>,
         <<<<"trajectoryFit">>, StrV(<<>>)>>,
         <<<<"careerAnchors">>, Arr(<<>>)>>,
         <<<<"skillGaps">>, Obj(<< <<<<"missingTechnical">>, Arr(<<>>)>>,
                                  <<<<"missingSoft">>, Arr(<<>>)>> >>)>>,
         <<<<"concreteActions">>, Arr(<<>>)>> >>)

\* let content = textPart?.text?.trim() || ""; if (!content) return 500
ReadCompletion ==
  /\ gpc = "read"
  /\ content' = Trim(upstream.text)
  /\ IF content' = <<>>
     THEN /\ response' = JsonError("Gap model returned no content.")
          /\ gpc' = "done"
     ELSE /\ response' = response
          /\ gpc' = "strip"
  /\ UNCHANGED <<upstream, gapAnalysis>>

\* content = stripFences(content); let gapAnalysis = null
StripFences ==
  /\ gpc = "strip"
  /\ content' = stripFences(content)
  /\ gapAnalysis' = Null
  /\ gpc' = "parse"
  /\ UNCHANGED <<upstream, response>>

\* 1) try { gapAnalysis = JSON.parse(content) } catch {}
ParseAsIs ==
  /\ gpc = "parse"
  /\ gapAnalysis' = OrElse(JSONParse(content), gapAnalysis)
  /\ gpc' = "inner"
  /\ UNCHANGED <<upstream, content, response>>

\* 2) if (typeof gapAnalysis === "string") try to parse the inner text
ParseInnerString ==
  /\ gpc = "inner"
  /\ gapAnalysis' =
       (IF IsString(gapAnalysis)
        THEN OrElse(JSONParse(stripFences(gapAnalysis.s)), gapAnalysis)
        ELSE gapAnalysis)
  /\ gpc' = "braces"
  /\ UNCHANGED <<upstream, content, response>>

\* 3) if still not an object, parse the text between the first { and last }
ExtractBraces ==
  /\ gpc = "braces"
  /\ gapAnalysis' =
       (IF ~IsObjectLike(gapAnalysis) /\ Has(content, "{") /\ Has(content, "}")
           /\ LastIndex(content, "}") > FirstIndex(content, "{")
        THEN OrElse(JSONParse(SubSeq(content, FirstIndex(content, "{"),
                                     LastIndex(content, "}"))), gapAnalysis)
        ELSE gapAnalysis)
  /\ gpc' = "fallback"
  /\ UNCHANGED <<upstream, content, response>>

\* 4) final fallback: wrap the text as overallSummary
Fallback ==
  /\ gpc = "fallback"
  /\ gapAnalysis' = (IF ~IsObjectLike(gapAnalysis)
                     THEN FallbackObject(content) ELSE gapAnalysis)
  /\ gpc' = "normalise"
  /\ UNCHANGED <<upstream, content, response>>

\* 5) gapAnalysis = normaliseGapAnalysis(gapAnalysis); return the response.
\* An exception thrown here is caught by the catch of POST, which answers 500.
Normalise ==
  /\ gpc = "normalise"
  /\ response' = Respond(normaliseGapAnalysis(gapAnalysis))
  /\ gapAnalysis' = (IF response'.status = 200 THEN response'.gapAnalysis
                     ELSE gapAnalysis)
  /\ gpc' = "done"
  /\ UNCHANGED <<upstream, content>>

---------------------------------------------------------------------------
(* The completions the gap model may return *)

TICKS == <<TICK, TICK, TICK>>

MaxNest == 2     \* how many times a report is JSON-encoded inside overallSummary
MaxProse == 4    \* lexemes of a prose completion

Summaries == { <<"Strong">>, <<"see", SP, TICK, TICK, TICK>>, <<>> }
Fits == { <<"High", SP, "fit">>, <<>> }
AnchorLists == { <<>>, << <<"led", SP, "7">> >> }
TechLists ==
  { <<>>,
    << [name |-> <<"sql">>, resourceUrl |-> StrV(<<"url">>)],
       [name |-> <<"r">>, resourceUrl |-> Undefined] >> }
SoftLists == { <<>>, << <<"comms">> >> }
ActionLists == { <<>>, << <<"ship">>, <<"learn">> >> }

\* well-formed GapReports: five fields, trimmed strings, non-empty items
Reports ==
  { [overallSummary |-> os, trajectoryFit |-> tf, careerAnchors |-> ca,
     skillGaps |-> [missingTechnical |-> mt, missingSoft |-> ms],
     concreteActions |-> ac] :
      os \in Summaries, tf \in Fits, ca \in AnchorLists,
      mt \in TechLists, ms \in SoftLists, ac \in ActionLists }

StrArr(l) == Arr([k \in 1..Len(l) |-> StrV(l[k])])

TechValue(t) ==
  Obj(<< <<<<"name">>, StrV(t.name)>>, <<<<"resourceUrl">>, t.resourceUrl>> >>)

\* a report as the JavaScript object the model serialises
ReportValue(g) ==
  Obj(<< <<<<"overallSummary">>, StrV(g.overallSummary)>>,
         <<<<"trajectoryFit">>, StrV(g.trajectoryFit)>>,
         <<<<"careerAnchors">>, StrArr(g.careerAnchors)>>,
         <<<<"skillGaps">>,
           Obj(<< <<<<"missingTechnical">>,
                    Arr([k \in 1..Len(g.skillGaps.missingTechnical) |->
                           TechValue(g.skillGaps.missingTechnical[k])])>>,
                  <<<<"missingSoft">>, StrArr(g.skillGaps.missingSoft)>> >>)>>,
         <<<<"concreteActions">>, StrArr(g.concreteActions)>> >>)

\* the report serialised n times, each further time inside overallSummary
RECURSIVE Encoded(_, _)
Encoded(g, n) ==
  IF n <= 1 THEN Stringify(ReportValue(g))
  ELSE Stringify(Obj(<< <<<<"overallSummary">>, StrV(Encoded(g, n - 1))>> >>))

\* what the outer object carries beside overallSummary
OuterKinds == {"alone", "empties", "other"}
OuterMembers(k) ==
  CASE k = "alone" -> <<>>
    [] k = "empties" ->
         << <<<<"trajectoryFit">>, StrV(<<>>)>>,
            <<<<"careerAnchors">>, Arr(<<>>)>>,
            <<<<"skillGaps">>, Obj(<< <<<<"missingTechnical">>, Arr(<<>>)>>,
                                     <<<<"missingSoft">>, Arr(<<>>)>> >>)>>,
            <<<<"concreteActions">>, Arr(<<>>)>> >>
    [] k = "other" ->
         << <<<<"trajectoryFit">>, StrV(<<"Low">>)>>,
            <<<<"careerAnchors">>, Arr(<<StrV(<<"outer">>)>>)>> >>

DoubleEncoded(g, n, k) ==
  Obj(<< <<<<"overallSummary">>, StrV(Encoded(g, n))>> >> \o OuterMembers(k))

\* loosely typed objects and other JSON values
LooseValues ==
  { Obj(<<>>),
    Arr(<<Num("1"), Num("7")>>),
    Num("42"), Null, Bool(TRUE), StrV(<<"hello">>),
    Obj(<< <<<<"overallSummary">>, StrV(<<SP, "padded", SP>>)>>,
           <<<<"trajectoryFit">>, Num("7")>>,
           <<<<"careerAnchors">>, Arr(<<StrV(<<>>), Num("1"), Null, StrV(<<SP>>),
                                         Arr(<<>>), Obj(<<>>)>>)>>,
           <<<<"concreteActions">>, StrV(<<"ship">>)>> >>),
    Obj(<< <<<<"skillGaps">>,
             Obj(<< <<<<"missingTechnical">>,
                      Arr(<<StrV(<<"sql">>),
                            Obj(<< <<<<"name">>, StrV(<<"r">>)>>,
                                   <<<<"resourceUrl">>, Num("1")>> >>),
                            Obj(<< <<<<"name">>, StrV(<<>>)>> >>),
                            Obj(<< <<<<"title">>, StrV(<<"x">>)>> >>),
                            Num("7")>>)>>,
                    <<<<"missingSoft">>, Arr(<<StrV(<<"comms">>), StrV(<<>>)>>)>> >>)>> >>),
    Obj(<< <<<<"skillGaps">>, Arr(<<StrV(<<"sql">>)>>)>>,
           <<<<"overallSummary">>, Null>> >>),
    Obj(<< <<<<"overallSummary">>, StrV(<<"{", "broken">>)>> >>),
    Obj(<< <<<<"overallSummary">>,
             StrV(Stringify(Obj(<< <<<<"trajectoryFit">>, StrV(<<"High">>)>> >>)))>> >>),
    Obj(<< <<<<"overallSummary">>, StrV(<<"ok">>)>>,
           <<<<"trajectoryFit">>,
             StrV(Stringify(Obj(<< <<<<"fit">>, StrV(<<"High">>)>> >>)))>> >>),
    Obj(<< <<<<"overallSummary">>, StrV(<<"ok">>)>>,
           <<<<"concreteActions">>,
             Arr(<<StrV(Stringify(Obj(<< <<<<"step">>, Num("1")>> >>)))>>)>> >>),
    Obj(<< <<<<"overallSummary">>, Obj(<< <<<<"toString">>, Num("1")>> >>)>> >>),
    Obj(<< <<<<"overallSummary">>, StrV(<<"ok">>)>>,
           <<<<"careerAnchors">>, Arr(<<Obj(<< <<<<"toString">>, Null>> >>)>>)>> >>),
    Obj(<< <<<<"overallSummary">>,
             StrV(Stringify(Obj(<< <<<<"trajectoryFit">>, StrV(<<"High">>)>>,
                                   <<<<"careerAnchors">>,
                                     Arr(<<Obj(<< <<<<"toString">>, Num("1")>> >>)>>)>> >>)))>> >>)
  }

ProseAlphabet == {"good", SP, TICK, "{", "}"}
Prose == UNION { [1..n -> ProseAlphabet] : n \in 0..MaxProse }

Desc(kind, g, n, k, text) ==
  [kind |-> kind, report |-> g, depth |-> n, outer |-> k, text |-> text]

Completions ==
       { Desc("json", g, 0, "", Stringify(ReportValue(g))) : g \in Reports }
  \cup { Desc("fenced", g, 0, "",
              TICKS \o <<"json", SP>> \o Stringify(ReportValue(g)) \o <<SP>> \o TICKS \o <<SP>>) :
           g \in Reports }
  \cup { Desc("wrapped", g, 0, "",
              <<"Here", SP, "it", SP, "is", ":", SP>> \o Stringify(ReportValue(g))
                \o <<SP, "Done">>) : g \in Reports }
  \cup { Desc("literal", g, 0, "", Stringify(StrV(Stringify(ReportValue(g))))) :
           g \in Reports }
  \cup { Desc("double", g, n, k, Stringify(DoubleEncoded(g, n, k))) :
           g \in Reports, n \in 1..MaxNest, k \in OuterKinds }
  \cup { Desc("loose", EmptyReport, 0, "", Stringify(v)) : v \in LooseValues }
  \cup { Desc("prose", EmptyReport, 0, "", t) : t \in Prose }

---------------------------------------------------------------------------
(* Numbers of the success pattern: a rational n/d with d > 0, NaN, Infinity *)

Rat(n, d) == [t |-> "num", n |-> n, d |-> d]
NaN == [t |-> "nan"]
Infinity == [t |-> "inf"]
Zero == Rat(0, 1)

RECURSIVE GCD(_, _)
GCD(a, b) == IF b = 0 THEN a ELSE GCD(b, a % b)

Abs(n) == IF n < 0 THEN -n ELSE n

Reduced(n, d) == Rat(n \div GCD(Abs(n), d), d \div GCD(Abs(n), d))

\* a + b
Plus(x, y) ==
  IF x.t = "num" /\ y.t = "num"
  THEN Reduced(x.n * y.d + y.n * x.d, x.d * y.d)
  ELSE IF x.t = "nan" \/ y.t = "nan" THEN NaN ELSE Infinity

\* x / k for a length k: 0 / 0 is NaN, a positive number over 0 is Infinity
Over(x, k) ==
  IF x.t # "num" THEN x
  ELSE IF k > 0 THEN Reduced(x.n, x.d * k)
  ELSE IF x.n = 0 THEN NaN ELSE Infinity

\* a maximum that keeps its first argument
MathMaxKeepingFirst(x, y) == x

\* Math.max(x, y)
MathMax(x, y) ==
  IF x.t = "nan" \/ y.t = "nan" THEN NaN
  ELSE IF x.n * y.d < y.n * x.d THEN y ELSE x

\* the sum of xs[lo..hi]
RECURSIVE SumOf(_, _, _)
SumOf(xs, lo, hi) ==
  IF lo > hi THEN Zero
  ELSE IF lo = hi THEN xs[lo]
  ELSE Plus(SumOf(xs, lo, (lo + hi) \div 2), SumOf(xs, (lo + hi) \div 2 + 1, hi))

\* xs.reduce((a, b) => a + b, 0)
Sum(xs) == SumOf(xs, 1, Len(xs))

---------------------------------------------------------------------------
(* findGoldenStep, tenureInYears, impactDensity *)

\* !v for a string, null or undefined
Falsy(v) == Nullish(v) \/ (v.t = "string" /\ v.s = <<>>)

\* the result of findGoldenStep when it is an entry
Entry(exp) == [t |-> "entry", exp |-> exp]

\* a match that minds letter case
StepMatchesExactCase(current, role, company) ==
  Includes(current.title, role) /\ Includes(current.company, company)

\* roleMatch && companyMatch for one entry
StepMatches(current, role, company) ==
  /\ Includes(ToLowerCase(current.title), ToLowerCase(role))
  /\ Includes(ToLowerCase(current.company), ToLowerCase(company))

\* for (let i = 0; i < exps.length - 1; i++): i counts from 1 here
RECURSIVE ScanFrom(_, _, _, _)
ScanFrom(exps, i, role, company) ==
  IF i > Len(exps) - 1 THEN Null
  ELSE IF StepMatches(exps[i], role, company) THEN Entry(exps[i + 1])
  ELSE ScanFrom(exps, i + 1, role, company)

findGoldenStep(profile, role, company) ==
  IF Len(profile.experience_history) = 0 THEN Null
  ELSE ScanFrom(profile.experience_history, 1, role, company)

\* the date strings new Date() parses in this model; for any other string
\* getTime() is NaN
DateStrings == {<<"2019">>, <<"2020">>, <<"2021">>}

\* new Date(s).getTime(), counted in days since the epoch (1 January of the year)
getTime(s) ==
  CASE s = <<"2019">> -> 17897
    [] s = <<"2020">> -> 18262
    [] s = <<"2021">> -> 18628

\* milliseconds / (1000 * 60 * 60 * 24 * 365.25), for a time span given in days
Years(days) == Reduced(4 * days, 1461)

\* end.getTime(): end_date ? new Date(end_date) : new Date()
EndTime(exp) == IF Falsy(exp.end_date) THEN now ELSE getTime(exp.end_date.s)

tenureInYears(exp) ==
  IF Falsy(exp.start_date) THEN Null
  ELSE IF exp.start_date.s \notin DateStrings THEN Null
  ELSE IF ~Falsy(exp.end_date) /\ exp.end_date.s \notin DateStrings THEN Null
  ELSE MathMax(Years(EndTime(exp) - getTime(exp.start_date.s)), Zero)

NL == "\n"
IsWs(c) == c \in {SP, NL}

\* text.replace(/\s+/g, " ")
CollapseWs(s) ==
  LET t == Keeping(s, LAMBDA k : ~IsWs(s[k]) \/ k = 1 \/ ~IsWs(s[k - 1]))
  IN [k \in 1..Len(t) |-> IF IsWs(t[k]) THEN SP ELSE t[k]]

\* s.split(c)
Split(s, c) ==
  LET at == SelectSeq([k \in 1..Len(s) |-> k], LAMBDA k : s[k] = c)
  IN [j \in 1..(Len(at) + 1) |->
        SubSeq(s, IF j = 1 THEN 1 ELSE at[j - 1] + 1,
                  IF j = Len(at) + 1 THEN Len(s) ELSE at[j] - 1)]

IsDigit(c) == c \in {"0", "1", "2", "3", "4", "5", "6", "7", "8", "9"}

\* a test that looks for digits only
ImpactfulDigitsOnly(t) == \E k \in 1..Len(t) : IsDigit(t[k])

\* /[0-9]/.test(t) || t.includes("%") || t.includes("$")
Impactful(t) == (\E k \in 1..Len(t) : IsDigit(t[k])) \/ Has(t, "%") \/ Has(t, "$")

\* impactful.length / tokens.length
Share(tokens) == Reduced(Len(SelectSeq(tokens, Impactful)), Len(tokens))

impactDensity(text) ==
  IF Falsy(text) THEN Zero
  ELSE LET tokens == SelectSeq(Split(CollapseWs(text.s), SP), LAMBDA t : t # <<>>)
       IN IF Len(tokens) = 0 THEN Zero ELSE Share(tokens)

---------------------------------------------------------------------------
(* deriveSuccessPattern *)

\* for (const r of keys) { if (!key) continue; counts.set(key, (counts.get(key) ?? 0) + 1) }
\* leaves a Map with one entry for each key that is not empty, inserted when
\* the key is met first and counting every turn that met it. The Map is kept
\* as its entries <<key, count>> in insertion order.
CountAll(keys) ==
  LET firsts == SelectSeq([k \in 1..Len(keys) |-> k],
                          LAMBDA k : keys[k] # <<>> /\ \A j \in 1..(k - 1) : keys[j] # keys[k])
  IN [i \in 1..Len(firsts) |->
        <<keys[firsts[i]], Cardinality({k \in 1..Len(keys) : keys[k] = keys[firsts[i]]})>>]

\* a sort that puts an entry before the earlier entries of the same count
PlaceBeforeTies(es, i) ==
  1 + Cardinality({j \in 1..Len(es) : es[j][2] > es[i][2]})
    + Cardinality({j \in (i + 1)..Len(es) : es[j][2] = es[i][2]})

\* where a stable sort by (a, b) => b[1] - a[1] puts entry i: after the
\* entries of a larger count and the earlier entries of the same count
Place(es, i) ==
  1 + Cardinality({j \in 1..Len(es) : es[j][2] > es[i][2]})
    + Cardinality({j \in 1..(i - 1) : es[j][2] = es[i][2]})

\* Array.prototype.sort((a, b) => b[1] - a[1])
SortByCount(es) ==
  [p \in 1..Len(es) |-> es[CHOOSE i \in 1..Len(es) : Place(es, i) = p]]

\* .slice(0, n).map(([key]) => key)
TopKeys(es, n) == [k \in 1..(IF Len(es) < n THEN Len(es) ELSE n) |-> es[k][1]]

\* the keys of the role count: r.trim()
RoleKeys(roles) == [k \in 1..Len(roles) |-> Trim(roles[k])]

\* the keys of the skill count: s.toLowerCase().trim()
SkillKeys(skills) == [k \in 1..Len(skills) |-> Trim(ToLowerCase(skills[k]))]

\* xs.length > 0 ? xs.reduce((a, b) => a + b, 0) / xs.length : 0
Average(xs) == IF Len(xs) > 0 THEN Over(Sum(xs), Len(xs)) ELSE Zero

\* const t = tenureInYears(golden); if (t !== null) tenures.push(t)
PushTenure(ts, t) == IF t = Null THEN ts ELSE Append(ts, t)

\* one turn of the loop over the profiles in which findGoldenStep finds
\* nothing: the skills are collected and the loop continues
SkipProfile ==
  /\ ppc = "loop" /\ pidx < Len(profiles)
  /\ findGoldenStep(profiles[pidx + 1], targetRole, targetCompany) = Null
  /\ golden' = Null
  /\ allSkills' = allSkills \o profiles[pidx + 1].skills
  /\ pidx' = pidx + 1
  /\ UNCHANGED <<ppc, profiles, targetRole, targetCompany, now,
                 goldenRoles, tenures, impactScores, pattern>>

\* one turn of the loop in which findGoldenStep finds the golden step
CollectGoldenStep ==
  /\ ppc = "loop" /\ pidx < Len(profiles)
  /\ golden' = findGoldenStep(profiles[pidx + 1], targetRole, targetCompany)
  /\ golden' # Null
  /\ allSkills' = allSkills \o profiles[pidx + 1].skills
  /\ goldenRoles' = Append(goldenRoles, golden'.exp.title)
  /\ tenures' = PushTenure(tenures, tenureInYears(golden'.exp))
  /\ impactScores' = Append(impactScores, impactDensity(golden'.exp.description))
  /\ pidx' = pidx + 1
  /\ UNCHANGED <<ppc, profiles, targetRole, targetCompany, now, pattern>>

\* after the loop: the two rankings and the two averages
Summarise ==
  /\ ppc = "loop" /\ pidx = Len(profiles)
  /\ pattern' =
       [common_previous_roles |-> TopKeys(SortByCount(CountAll(RoleKeys(goldenRoles))), 5),
        top_skills_delta |-> TopKeys(SortByCount(CountAll(SkillKeys(allSkills))), 20),
        avg_tenure_in_previous_step |-> Average(tenures),
        impact_keyword_density |-> Average(impactScores)]
  /\ ppc' = "done"
  /\ UNCHANGED <<profiles, targetRole, targetCompany, now, pidx, golden,
                 goldenRoles, tenures, impactScores, allSkills>>

\* a call of impactDensity on its own
ComputeDensity ==
  /\ ipc = "call"
  /\ idensity' = impactDensity(itext)
  /\ ipc' = "done"
  /\ UNCHANGED itext

---------------------------------------------------------------------------
(* Specification of the gap phase *)

GapIdle ==
  /\ upstream = Desc("none", EmptyReport, 0, "", <<>>)
  /\ gpc = "idle" /\ content = <<>> /\ gapAnalysis = Null
  /\ response = NoResponse

PatIdle ==
  /\ ppc = "idle" /\ profiles = <<>> /\ targetRole = <<>> /\ targetCompany = <<>>
  /\ now = 0 /\ pidx = 0 /\ golden = Null /\ goldenRoles = <<>> /\ tenures = <<>>
  /\ impactScores = <<>> /\ allSkills = <<>> /\ pattern = <<>>

ImpIdle == ipc = "idle" /\ itext = Null /\ idensity = Zero

DiscIdle ==
  /\ dpc = "idle" /\ dreq = Null /\ denv = Null /\ outbound = <<>> /\ rawCount = 0
  /\ targetCount = 0 /\ peers = <<>> /\ peerIdx = 1 /\ similarCount = 0 /\ dresp = Null

CacheIdle ==
  /\ cache = <<>> /\ heap = <<>> /\ creq = <<>> /\ cenv = Null /\ arrived = 0

MapIdle ==
  /\ fpc = "idle" /\ fiberRaw = Null /\ mappedProfile = Null

SectIdle ==
  /\ spc = "idle" /\ sectionValue = Null /\ sectionText = Null

FitIdle ==
  /\ fitpc = "idle" /\ fitText = <<>> /\ pdfScore = 0 /\ dashScore = 0

AuthIdle ==
  /\ upc = "idle" /\ visit = Null /\ supabaseEnv = Null /\ userAsked = FALSE /\ answer = Null

EarlyIdle ==
  /\ epc = "idle" /\ ereport = Null /\ eblocks = <<>> /\ eidx = 0 /\ ecursorY = 0
  /\ epages = 0 /\ edrawn = Null /\ ereply = 0

FormIdle ==
  /\ vpc = "idle" /\ formParsed = Null /\ saving = FALSE /\ formError = <<>>
  /\ saveSuccess = FALSE /\ clicks = 0

FlightIdle ==
  /\ qreq = Null /\ qstage = "idle" /\ qawait = FALSE /\ qpeers = <<>> /\ qidx = 1
  /\ flying = {} /\ qlog = <<>>

CvIdle ==
  /\ cpc = "idle" /\ entry = "none" /\ upload = Null /\ envKey = Null /\ extracted = FALSE
  /\ calls = <<>> /\ clock = 0 /\ caught = Null /\ completion = Null /\ result = Null
  /\ parsing = FALSE /\ uiError = <<>> /\ uiParsed = Null

RenIdle ==
  /\ rpc = "idle" /\ request = Null /\ blocks = <<>> /\ bidx = 0 /\ cursorY = 0
  /\ pages = 0 /\ col = 0 /\ rowTopY = 0 /\ drawn = Null /\ logoDrawn = FALSE
  /\ reply = Null

GapInit ==
  /\ upstream \in Completions
  /\ gpc = "read" /\ content = <<>> /\ gapAnalysis = Null
  /\ response = NoResponse
  /\ PatIdle /\ ImpIdle /\ RenIdle /\ CvIdle /\ DiscIdle /\ CacheIdle /\ MapIdle /\ SectIdle /\ FitIdle /\ AuthIdle /\ EarlyIdle /\ FormIdle /\ FlightIdle

GapNext ==
  \/ ReadCompletion /\ UNCHANGED <<patVars, impVars, renVars, cvVars, discVars, cacheVars, mapVars, sectVars, fitVars, authVars, earlyVars, formVars, flightVars>>
  \/ StripFences /\ UNCHANGED <<patVars, impVars, renVars, cvVars, discVars, cacheVars, mapVars, sectVars, fitVars, authVars, earlyVars, formVars, flightVars>>
  \/ ParseAsIs /\ UNCHANGED <<patVars, impVars, renVars, cvVars, discVars, cacheVars, mapVars, sectVars, fitVars, authVars, earlyVars, formVars, flightVars>>
  \/ ParseInnerString /\ UNCHANGED <<patVars, impVars, renVars, cvVars, discVars, cacheVars, mapVars, sectVars, fitVars, authVars, earlyVars, formVars, flightVars>>
  \/ ExtractBraces /\ UNCHANGED <<patVars, impVars, renVars, cvVars, discVars, cacheVars, mapVars, sectVars, fitVars, authVars, earlyVars, formVars, flightVars>>
  \/ Fallback /\ UNCHANGED <<patVars, impVars, renVars, cvVars, discVars, cacheVars, mapVars, sectVars, fitVars, authVars, earlyVars, formVars, flightVars>>
  \/ Normalise /\ UNCHANGED <<patVars, impVars, renVars, cvVars, discVars, cacheVars, mapVars, sectVars, fitVars, authVars, earlyVars, formVars, flightVars>>

GapSpec == GapInit /\ [][GapNext]_vars

---------------------------------------------------------------------------
(* Properties of the gap phase *)

\* the gap phase has answered a completion that held some text
GapAnswered == gpc = "done" /\ Trim(upstream.text) # <<>>

\* s is the serialisation of a JSON object
SerializedObject(s) == JSONParse(s).ok /\ JSONParse(s).v.t = "object"

\* some substring of s is a JSON text
ContainsJson(s) ==
  \E i \in 1..Len(s) : \E j \in i..Len(s) : JSONParse(SubSeq(s, i, j)).ok

HasFence(s) == \E k \in 1..(Len(s) - 2) : SubSeq(s, k, k + 2) = TICKS

\* C1: whatever text the gap model returns (JSON, a string literal around
\* JSON, JSON inside prose or fences, a double-encoded summary, prose), the
\* gap phase answers with a report and never with an error.
C1_NeverSurfacesError == GapAnswered => response.status = 200

\* C2: no field of the normalised report, and no list element, is a string
\* that is itself a serialised JSON object.
C2_NoSerializedJson ==
  (gpc = "done" /\ response.status = 200) =>
    LET g == response.gapAnalysis IN
      /\ ~SerializedObject(g.overallSummary)
      /\ ~SerializedObject(g.trajectoryFit)
      /\ \A k \in 1..Len(g.careerAnchors) : ~SerializedObject(g.careerAnchors[k])
      /\ \A k \in 1..Len(g.concreteActions) : ~SerializedObject(g.concreteActions[k])
      /\ \A k \in 1..Len(g.skillGaps.missingSoft) :
           ~SerializedObject(g.skillGaps.missingSoft[k])
      /\ \A k \in 1..Len(g.skillGaps.missingTechnical) :
           ~SerializedObject(g.skillGaps.missingTechnical[k].name)

\* the declared shape of a report: the two texts are strings, the lists hold
\* non-empty strings, a technical gap has a non-empty name and a resourceUrl
\* that is a string or undefined
DeclaredShape(g) ==
  /\ DOMAIN g = {"overallSummary", "trajectoryFit", "careerAnchors",
                 "skillGaps", "concreteActions"}
  /\ \A k \in 1..Len(g.careerAnchors) : g.careerAnchors[k] # <<>>
  /\ \A k \in 1..Len(g.concreteActions) : g.concreteActions[k] # <<>>
  /\ \A k \in 1..Len(g.skillGaps.missingSoft) : g.skillGaps.missingSoft[k] # <<>>
  /\ \A k \in 1..Len(g.skillGaps.missingTechnical) :
       /\ g.skillGaps.missingTechnical[k].name # <<>>
       /\ g.skillGaps.missingTechnical[k].resourceUrl.t \in {"string", "undefined"}

\* C3: for every input normaliseGapAnalysis returns an object with all five
\* fields in their declared shape.
C3_DeclaredShape ==
  GapAnswered => (response.status = 200 /\ DeclaredShape(response.gapAnalysis))

\* C4: the JSON serialisation of a well-formed GapReport comes back as that
\* GapReport.
C4_RoundTrip ==
  (GapAnswered /\ upstream.kind = "json") => response = JsonOk(upstream.report)

ReportHasFence(g) ==
  \/ HasFence(g.overallSummary) \/ HasFence(g.trajectoryFit)
  \/ \E k \in 1..Len(g.careerAnchors) : HasFence(g.careerAnchors[k])
  \/ \E k \in 1..Len(g.concreteActions) : HasFence(g.concreteActions[k])

\* C5: an object whose overallSummary holds the serialisation of a
\* well-formed GapReport G is normalised to the five fields of G (stated for
\* reports without fence markers, which the fence stripping leaves alone).
C5_DoubleEncodedRecovered ==
  (GapAnswered /\ upstream.kind = "double" /\ upstream.depth = 1
     /\ ~ReportHasFence(upstream.report))
    => response = JsonOk(upstream.report)

---------------------------------------------------------------------------
(* Inputs of deriveSuccessPattern and impactDensity *)

MaxHistory == 3     \* longest experience history tried exhaustively
MaxProfiles == 3    \* longest profile list tried exhaustively
MaxCrowd == 7       \* distinct golden-step titles in the large profile lists
MaxText == 4        \* longest description tried exhaustively

Exp(title, company, start, end, description) ==
  [title |-> title, company |-> company, start_date |-> start,
   end_date |-> end, description |-> description]

\* entries as mapFiberProfile builds them: title or company is not empty
Entries ==
  { Exp(<<"A">>, <<"B">>, Null, Null, Null),
    Exp(<<"b", "A", "b">>, <<"a", "b">>, StrV(<<"2020">>), Null, StrV(<<"a">>)),
    Exp(<<"b">>, <<"b">>, Null, StrV(<<"2020">>), StrV(<<"7", "%">>)),
    Exp(<<"a">>, <<"a">>, StrV(<<"2019">>), StrV(<<"2019">>), Null),
    Exp(<<>>, <<"b">>, StrV(<<>>), Null, StrV(<<>>)),
    Exp(<<"b">>, <<"b">>, StrV(<<"2019">>), StrV(<<"2021">>), StrV(<<"a", SP, "7">>)),
    Exp(<<SP, "b", SP>>, <<"a">>, StrV(<<"2021">>), StrV(<<"2019">>), Null),
    Exp(<<"B">>, <<"a">>, StrV(<<"2020">>), StrV(<<>>), StrV(<<"$", SP, "%", NL, "a">>)),
    Exp(<<SP>>, <<"a">>, StrV(<<"Present">>), Null, StrV(<<SP, NL>>)),
    Exp(<<"A", SP, "b">>, <<"B">>, StrV(<<"2019">>), StrV(<<"soon">>), StrV(<<"a", "7">>)),
    Exp(<<"a", "b">>, <<"b">>, StrV(<<"2021">>), Null, StrV(<<"a", SP, "a", SP, "$">>)) }

Histories == UNION { [1..n -> Entries] : n \in 0..MaxHistory }

Profile(history, skills) ==
  [full_name |-> <<"Unknown">>, current_occupation |-> <<"Unknown">>,
   experience_history |-> history, skills |-> skills, education |-> <<>>]

\* a profile whose newest entry is the target step and whose golden step is e
After(e, skills) == Profile(<<Exp(<<"A", "b">>, <<"B">>, Null, Null, Null), e>>, skills)

ProfilePool ==
  { After(Exp(<<"b">>, <<"b">>, StrV(<<"2019">>), StrV(<<"2021">>), StrV(<<"a", SP, "7">>)),
          <<<<"a">>, <<"b">>>>),
    After(Exp(<<SP, "b", SP>>, <<"a">>, StrV(<<"2021">>), StrV(<<"2019">>), Null),
          <<<<"A">>>>),
    After(Exp(<<"B">>, <<"a">>, StrV(<<"2020">>), StrV(<<>>), StrV(<<"$", SP, "%", NL, "a">>)),
          <<<<"B">>, <<"a">>, <<"a", SP, "b">>>>),
    After(Exp(<<"a">>, <<"a">>, StrV(<<"2019">>), StrV(<<"2020">>), StrV(<<"a">>)),
          <<<<"b">>>>),
    After(Exp(<<>>, <<"a">>, StrV(<<"Present">>), Null, StrV(<<SP>>)), <<>>),
    After(Exp(<<"a">>, <<"b">>, Null, Null, StrV(<<"7">>)), <<<<"A", SP, "B">>>>),
    Profile(<<Exp(<<"b">>, <<"B">>, Null, Null, Null),
              Exp(<<"b">>, <<"b">>, StrV(<<"2019">>), Null, Null)>>, <<<<"a">>>>),
    Profile(<<>>, <<<<"b">>, <<"B">>>>) }

\* n copies of the lexeme c
Rep(c, n) == [k \in 1..n |-> c]

\* the i-th member of a crowd: its golden step has the i-th title, and it
\* brings three skills of its own
Member(i) ==
  After(Exp(Rep("b", i), <<"a">>, StrV(<<"2019">>), StrV(<<"2020">>), StrV(<<"7">>)),
        <<Rep("a", 3 * i - 2), Rep("A", 3 * i - 1), Rep("a", 3 * i)>>)

Crowd(order) == [k \in 1..Len(order) |-> Member(order[k])]

Up == [k \in 1..MaxCrowd |-> k]
Down == [k \in 1..MaxCrowd |-> MaxCrowd + 1 - k]

Crowds ==
  { Crowd(Up), Crowd(Down), Crowd(Down \o Up), Crowd(Up \o <<MaxCrowd, MaxCrowd, 2>>),
    Crowd(<<3, 1, 3, 2, 3, 3>> \o Up), Crowd(Down \o <<6, 6, 6, 5, 5, 4, 4>>) }

ProfileLists ==
       { <<Profile(h, <<<<"a">>>>)>> : h \in Histories }
  \cup UNION { [1..n -> ProfilePool] : n \in 0..MaxProfiles }
  \cup Crowds

\* targetRole and targetCompany: POST refuses empty ones
Targets == { <<<<"a">>, <<"b">>>>, <<<<"A", "b">>, <<"B">>>> }

\* the clock read by new Date(), in days since the epoch
Clocks == {18000, 18700}

TextAlphabet == {"a", "7", "%", "$", SP, NL}
Texts == UNION { [1..n -> TextAlphabet] : n \in 0..MaxText }

---------------------------------------------------------------------------
(* Specifications of deriveSuccessPattern and of impactDensity *)

PatInit ==
  /\ profiles \in ProfileLists
  /\ \E target \in Targets : targetRole = target[1] /\ targetCompany = target[2]
  /\ now \in Clocks
  /\ ppc = "loop" /\ pidx = 0 /\ golden = Null
  /\ goldenRoles = <<>> /\ tenures = <<>> /\ impactScores = <<>> /\ allSkills = <<>>
  /\ pattern = <<>>
  /\ GapIdle /\ ImpIdle /\ RenIdle /\ CvIdle /\ DiscIdle /\ CacheIdle /\ MapIdle /\ SectIdle /\ FitIdle /\ AuthIdle /\ EarlyIdle /\ FormIdle /\ FlightIdle

PatNext ==
  \/ SkipProfile /\ UNCHANGED <<gapVars, impVars, renVars, cvVars, discVars, cacheVars, mapVars, sectVars, fitVars, authVars, earlyVars, formVars, flightVars>>
  \/ CollectGoldenStep /\ UNCHANGED <<gapVars, impVars, renVars, cvVars, discVars, cacheVars, mapVars, sectVars, fitVars, authVars, earlyVars, formVars, flightVars>>
  \/ Summarise /\ UNCHANGED <<gapVars, impVars, renVars, cvVars, discVars, cacheVars, mapVars, sectVars, fitVars, authVars, earlyVars, formVars, flightVars>>

PatSpec == PatInit /\ [][PatNext]_vars

ImpInit ==
  /\ itext \in {Null, Undefined} \cup { StrV(s) : s \in Texts }
  /\ ipc = "call" /\ idensity = Zero
  /\ GapIdle /\ PatIdle /\ RenIdle /\ CvIdle /\ DiscIdle /\ CacheIdle /\ MapIdle /\ SectIdle /\ FitIdle /\ AuthIdle /\ EarlyIdle /\ FormIdle /\ FlightIdle

ImpNext == ComputeDensity /\ UNCHANGED <<gapVars, patVars, renVars, cvVars, discVars, cacheVars, mapVars, sectVars, fitVars, authVars, earlyVars, formVars, flightVars>>

ImpSpec == ImpInit /\ [][ImpNext]_vars

---------------------------------------------------------------------------
(* Properties of deriveSuccessPattern, findGoldenStep and impactDensity *)

Range(s) == { s[k] : k \in 1..Len(s) }
Least(S) == CHOOSE x \in S : \A y \in S : x <= y

\* how often x occurs among keys, and where it occurs first
Occurrences(keys, x) == Cardinality({ k \in 1..Len(keys) : keys[k] = x })
FirstAt(keys, x) == Least({ k \in 1..Len(keys) : keys[k] = x })

\* x ranks before y: more occurrences, or as many and an earlier first one
RanksBefore(keys, x, y) ==
  \/ Occurrences(keys, x) > Occurrences(keys, y)
  \/ /\ Occurrences(keys, x) = Occurrences(keys, y)
     /\ FirstAt(keys, x) < FirstAt(keys, y)

NonEmptyKeys(keys) == SelectSeq(keys, LAMBDA x : x # <<>>)

\* r is the first n of the distinct keys in ranking order
IsTopOf(r, keys, n) ==
  /\ Len(r) = (IF Cardinality(Range(keys)) < n THEN Cardinality(Range(keys)) ELSE n)
  /\ \A i \in 1..Len(r) : r[i] \in Range(keys)
  /\ \A i \in 1..Len(r) : \A j \in (i + 1)..Len(r) : RanksBefore(keys, r[i], r[j])
  /\ \A x \in Range(keys) \ Range(r) : \A i \in 1..Len(r) : RanksBefore(keys, r[i], x)

CountsNeverIncrease(r, keys) ==
  \A i \in 1..(Len(r) - 1) : Occurrences(keys, r[i]) >= Occurrences(keys, r[i + 1])

\* x occurs more often than every other key
Plurality(keys, x) ==
  x \in Range(keys) /\ \A y \in Range(keys) \ {x} : Occurrences(keys, x) > Occurrences(keys, y)

RoleKeysSeen == NonEmptyKeys([k \in 1..Len(goldenRoles) |-> Trim(goldenRoles[k])])
SkillKeysSeen == NonEmptyKeys([k \in 1..Len(allSkills) |-> Trim(ToLowerCase(allSkills[k]))])

\* C7: common_previous_roles is the first 5, top_skills_delta the first 20, of
\* the distinct keys by descending count with ties in first-occurrence order;
\* counts never increase along either list, and a golden-step title that
\* occurs more often than every other is common_previous_roles[0].
C7_Ranking ==
  ppc = "done" =>
    /\ IsTopOf(pattern.common_previous_roles, RoleKeysSeen, 5)
    /\ IsTopOf(pattern.top_skills_delta, SkillKeysSeen, 20)
    /\ Len(pattern.common_previous_roles) <= 5
    /\ Len(pattern.top_skills_delta) <= 20
    /\ CountsNeverIncrease(pattern.common_previous_roles, RoleKeysSeen)
    /\ CountsNeverIncrease(pattern.top_skills_delta, SkillKeysSeen)
    /\ \A x \in Range(RoleKeysSeen) :
         Plurality(RoleKeysSeen, x) => pattern.common_previous_roles[1] = x

\* more than 5 titles and more than 20 skills, a title ahead of all others,
\* ties among the rest, and a first title that was not seen first
C7_Witness ==
  /\ ppc = "done"
  /\ Cardinality(Range(RoleKeysSeen)) > 5
  /\ Cardinality(Range(SkillKeysSeen)) > 20
  /\ Plurality(RoleKeysSeen, pattern.common_previous_roles[1])
  /\ pattern.common_previous_roles[1] # RoleKeysSeen[1]
  /\ Occurrences(RoleKeysSeen, pattern.common_previous_roles[4])
       = Occurrences(RoleKeysSeen, pattern.common_previous_roles[5])

FiniteNonNegative(x) == x.t = "num" /\ x.d > 0 /\ x.n >= 0

\* C8: avg_tenure_in_previous_step and impact_keyword_density are finite
\* numbers that are not negative, and each is 0 when no profile contributed
\* a value to it.
C8_Averages ==
  ppc = "done" =>
    /\ FiniteNonNegative(pattern.avg_tenure_in_previous_step)
    /\ FiniteNonNegative(pattern.impact_keyword_density)
    /\ (tenures = <<>> => pattern.avg_tenure_in_previous_step = Zero)
    /\ (impactScores = <<>> => pattern.impact_keyword_density = Zero)

\* the golden step of profile p ends before it starts
EndsBeforeStart(exp) ==
  /\ ~Falsy(exp.start_date) /\ exp.start_date.s \in DateStrings
  /\ ~Falsy(exp.end_date) /\ exp.end_date.s \in DateStrings
  /\ getTime(exp.end_date.s) < getTime(exp.start_date.s)

\* a golden step that ends before it starts has been averaged with one that
\* does not
C8_Witness ==
  /\ ppc = "done"
  /\ golden # Null /\ EndsBeforeStart(golden.exp)
  /\ Len(tenures) > 1
  /\ pattern.avg_tenure_in_previous_step.n > 0
  /\ pattern.impact_keyword_density.n > 0

\* title holds role as a substring when letter case is ignored
HoldsIgnoringCase(s, sub) ==
  \E k \in 0..(Len(s) - Len(sub)) :
    \A j \in 1..Len(sub) : LowerLex(s[k + j]) = LowerLex(sub[j])

\* the positions, from the most recent entry, of the entries that match
MatchingSteps(exps) ==
  { i \in 1..Len(exps) : /\ HoldsIgnoringCase(exps[i].title, targetRole)
                         /\ HoldsIgnoringCase(exps[i].company, targetCompany) }

GoldenOf(exps) ==
  IF MatchingSteps(exps) = {} THEN Null
  ELSE IF Least(MatchingSteps(exps)) = Len(exps) THEN Null
  ELSE Entry(exps[Least(MatchingSteps(exps)) + 1])

\* C9: findGoldenStep returns the entry right after the first entry whose
\* title holds the target role and whose company holds the target company,
\* letter case ignored; null when no entry matches or the first match is the
\* last entry.
C9_GoldenStep ==
  pidx > 0 => golden = GoldenOf(profiles[pidx].experience_history)

\* several entries match, the first is not the newest entry and matches only
\* when letter case is ignored
C9_Witness ==
  /\ pidx > 0 /\ golden # Null
  /\ Cardinality(MatchingSteps(profiles[pidx].experience_history)) > 1
  /\ Least(MatchingSteps(profiles[pidx].experience_history)) > 1
  /\ ~Includes(profiles[pidx].experience_history[
         Least(MatchingSteps(profiles[pidx].experience_history))].title, targetRole)

\* the text impactDensity is given, empty when it is absent
TextOf(v) == IF v.t = "string" THEN v.s ELSE <<>>

\* where the whitespace-delimited tokens of s start and end
TokenStarts(s) == { k \in 1..Len(s) : ~IsWs(s[k]) /\ (k = 1 \/ IsWs(s[k - 1])) }
TokenEnd(s, k) ==
  CHOOSE e \in k..Len(s) :
    (\A j \in k..e : ~IsWs(s[j])) /\ (e = Len(s) \/ IsWs(s[e + 1]))

\* the tokens that hold a digit, % or $
Qualifying(s) ==
  { k \in TokenStarts(s) :
      \E j \in k..TokenEnd(s, k) : IsDigit(s[j]) \/ s[j] = "%" \/ s[j] = "$" }

\* C10: impactDensity(text) is the number of whitespace-delimited tokens
\* holding a digit, % or $ over the number of tokens; 0 for empty, absent or
\* whitespace-only text; within [0, 1]; positive exactly when a token
\* qualifies.
C10_Density ==
  ipc = "done" =>
    /\ idensity.t = "num" /\ idensity.d > 0
    /\ idensity.n * Cardinality(TokenStarts(TextOf(itext)))
         = Cardinality(Qualifying(TextOf(itext))) * idensity.d
    /\ (TokenStarts(TextOf(itext)) = {} => idensity = Zero)
    /\ 0 <= idensity.n /\ idensity.n <= idensity.d
    /\ (idensity.n > 0 <=> Qualifying(TextOf(itext)) # {})

\* some tokens qualify and some do not, around a run of whitespace
C10_Witness ==
  /\ ipc = "done" /\ itext.t = "string"
  /\ 0 < idensity.n /\ idensity.n < idensity.d
  /\ \E k \in 1..(Len(itext.s) - 1) : IsWs(itext.s[k]) /\ IsWs(itext.s[k + 1])
  /\ \E k \in 1..Len(itext.s) : itext.s[k] = NL

----------------------------------------------------------------------------
(* The report endpoint: text helpers *)

\* s.includes("overallSummary") and s.includes("trajectoryFit") over lexemes
NamesSummary(s) == Has(s, "overallSummary")
NamesFit(s) == Has(s, "trajectoryFit")

\* safeSectionText's first line: the trimmed string, String(value), or ""
SectionString(value) ==
  IF IsString(value) THEN Ret(Trim(value.s))
  ELSE IF ~Nullish(value) THEN ToStringJS(value) ELSE Ret(<<>>)

\* const summary = parsed.overallSummary ?? parsed.trajectoryFit, read from
\* what JSON.parse returned; reading a member of null throws inside the try
SummaryOf(parsed) ==
  IF parsed.t = "null" THEN <<>>
  ELSE LET first == Get(parsed, <<"overallSummary">>)
           summary == IF Nullish(first) THEN Get(parsed, <<"trajectoryFit">>) ELSE first
       IN IF IsString(summary) THEN Trim(summary.s) ELSE <<>>

\* the text safeSectionText makes of the string s
SectionText(s) ==
  IF s # <<>> /\ StartsWith(s, "{") /\ (NamesSummary(s) \/ NamesFit(s))
  THEN LET p == JSONParse(s) IN IF p.ok THEN SummaryOf(p.v) ELSE <<>>
  ELSE s

safeSectionText(value) == Map(SectionString(value), SectionText)

\* value.map(x => typeof x === "string" ? x : x != null ? String(x) : "")
\*      .filter(Boolean)
RECURSIVE StringsOf(_)
StringsOf(es) ==
  IF es = <<>> THEN Ret(<<>>)
  ELSE LET h == Head(es)
           Cons(s, t) == (IF s # <<>> THEN <<s>> ELSE <<>>) \o t
       IN Both(IF IsString(h) THEN Ret(h.s)
               ELSE IF ~Nullish(h) THEN ToStringJS(h) ELSE Ret(<<>>),
               StringsOf(Tail(es)), Cons)

\* JSON.parse(t).map(x => String(x)).filter(Boolean)
RECURSIVE AllToString(_)
AllToString(es) ==
  IF es = <<>> THEN Ret(<<>>)
  ELSE LET Cons(s, t) == (IF s # <<>> THEN <<s>> ELSE <<>>) \o t
       IN Both(ToStringJS(Head(es)), AllToString(Tail(es)), Cons)

\* the string branch of safeStringArray: whatever throws inside the try
\* gives []; a parsed value that is no array has no map, which throws too
ParsedStrings(t) ==
  LET p == JSONParse(t)
  IN IF p.ok /\ IsArray(p.v) THEN OrElse(AllToString(p.v.a), <<>>) ELSE <<>>

safeStringArray(value) ==
  IF IsArray(value) THEN StringsOf(value.a)
  ELSE IF IsString(value)
  THEN LET t == Trim(value.s)
       IN Ret(IF StartsWith(t, "[") THEN ParsedStrings(t)
              ELSE IF t # <<>> THEN <<t>> ELSE <<>>)
  ELSE Ret(<<>>)

\* x || "" : the falsy values become the empty string
Truthy(v) ==
  CASE v.t \in {"null", "undefined"} -> FALSE
    [] v.t = "string" -> v.s # <<>>
    [] v.t = "number" -> v.n # "0"
    [] v.t = "boolean" -> v.b
    [] OTHER -> TRUE

\* one element of o.missingTechnical as safeSkillGaps maps it
SafeTechEntry(t) ==
  IF t.t = "object" /\ HasOwn(t, <<"name">>)
  THEN LET n == Get(t, <<"name">>)
           url == Get(t, <<"resourceUrl">>)
           Named(s) == [name |-> s, resourceUrl |-> IF IsString(url) THEN url ELSE Undefined]
       IN Map(IF Truthy(n) THEN ToStringJS(n) ELSE Ret(<<>>), Named)
  ELSE LET Bare(s) == [name |-> s, resourceUrl |-> Undefined]
       IN Map(ToStringJS(t), Bare)

RECURSIVE SafeTechList(_)
SafeTechList(es) ==
  IF es = <<>> THEN Ret(<<>>)
  ELSE LET Cons(h, t) == (IF h.name # <<>> THEN <<h>> ELSE <<>>) \o t
       IN Both(SafeTechEntry(Head(es)), SafeTechList(Tail(es)), Cons)

safeSkillGaps(value) ==
  IF ~TypeofObject(value) \/ value.t = "null"
  THEN Ret([missingTechnical |-> <<>>, missingSoft |-> <<>>])
  ELSE LET mt == Get(value, <<"missingTechnical">>)
           Pair(tech, soft) == [missingTechnical |-> tech, missingSoft |-> soft]
       IN Both(IF IsArray(mt) THEN SafeTechList(mt.a) ELSE Ret(<<>>),
               safeStringArray(Get(value, <<"missingSoft">>)), Pair)

\* the lexemes that are runs of decimal digits, and Number(lexeme)
DigitRuns == {"7", "42", "80", "250"}
NumberOf(c) == CASE c = "7" -> 7 [] c = "42" -> 42 [] c = "80" -> 80 [] c = "250" -> 250

\* anchor.match(/(\d+)\s*%/): the leftmost digit run that a % follows, with
\* only whitespace between; 0 when there is none
PercentAt(anchor) ==
  LET Hit(k) == /\ anchor[k] \in DigitRuns
                /\ k + RunAfter(anchor, k, SP) < Len(anchor)
                /\ anchor[k + RunAfter(anchor, k, SP) + 1] = "%"
      hits == { k \in 1..Len(anchor) : Hit(k) }
  IN IF hits = {} THEN 0 ELSE CHOOSE k \in hits : \A j \in hits : k <= j

Min(a, b) == IF a < b THEN a ELSE b
Max(a, b) == IF a > b THEN a ELSE b

\* one element of parseCareerAnchors(rawAnchors)
ParsedAnchor(anchor, idx) ==
  LET k == PercentAt(anchor)
      value == IF k = 0 THEN 50 ELSE NumberOf(anchor[k])
      label == IF k = 0 THEN Trim(anchor)
               ELSE Trim(SubSeq(anchor, 1, k - 1)
                         \o SubSeq(anchor, k + RunAfter(anchor, k, SP) + 2, Len(anchor)))
  IN [name |-> IF label # <<>> THEN label ELSE <<"Anchor", SP, ToString(idx)>>,
      value |-> Max(0, Min(100, value)),
      raw |-> anchor]

parseCareerAnchors(rawAnchors) ==
  [i \in 1..Len(rawAnchors) |-> ParsedAnchor(rawAnchors[i], i)]

----------------------------------------------------------------------------
(* Page geometry, in thousandths of a point *)

PageWidth == 595280
PageHeight == 841890
TopOffset == 60000          \* cursorY = height - 60 on every page
TitleOffset == 110000       \* cursorY = height - 110 under the report title
MarginX == 40000
MaxWidth == PageWidth - MarginX * 2
BottomMargin == 70000
Columns == 3
GapX == 10000
CardHeight == 120000
\* cardWidth - 24, rounded down: text widths are whole thousandths
CardTextWidth == (MaxWidth - GapX * (Columns - 1)) \div Columns - 24000

\* Helvetica's advance widths, in thousandths of the font size
LexUnits(c) ==
  CASE c = SP -> 278
    [] c = "internationalisation" -> 8337
    [] c = "Lorem" -> 2834
    [] OTHER -> 556

\* sum of LexUnits over s[lo..hi]
RECURSIVE UnitsOf(_, _, _)
UnitsOf(s, lo, hi) ==
  IF lo > hi THEN 0
  ELSE IF lo = hi THEN LexUnits(s[lo])
  ELSE UnitsOf(s, lo, (lo + hi) \div 2) + UnitsOf(s, (lo + hi) \div 2 + 1, hi)

\* font.widthOfTextAtSize(s, size)
widthOfTextAtSize(s, size) == size * UnitsOf(s, 1, Len(s))

\* text.split(/\s+/) without the empty strings that leading and trailing
\* whitespace give: an empty word adds no line of its own
WordsOf(text) == SelectSeq(Split(CollapseWs(text), SP), LAMBDA w : w # <<>>)

\* words[lo..hi] joined by single spaces
RECURSIVE Joined(_, _, _)
Joined(words, lo, hi) ==
  IF lo > hi THEN <<>>
  ELSE IF lo = hi THEN words[lo]
  ELSE Joined(words, lo, (lo + hi) \div 2) \o <<SP>> \o Joined(words, (lo + hi) \div 2 + 1, hi)

\* the word after the last one of the line that starts with words[i]: words
\* are added while the line fits, and a word wider than the line stands alone
LineEnd(words, i, size, maxWidth) ==
  LET n == Len(words)
      TooWide(k) == k = n + 1 \/ widthOfTextAtSize(Joined(words, i, k), size) > maxWidth
      over == CHOOSE k \in (i + 1)..(n + 1) :
                TooWide(k) /\ \A j \in (i + 1)..(k - 1) : ~TooWide(j)
  IN over - 1

RECURSIVE LinesFrom(_, _, _, _)
LinesFrom(words, i, size, maxWidth) ==
  IF i > Len(words) THEN <<>>
  ELSE LET e == LineEnd(words, i, size, maxWidth)
       IN <<Joined(words, i, e)>> \o LinesFrom(words, e + 1, size, maxWidth)

wrapText(text, size, maxWidth) == LinesFrom(WordsOf(text), 1, size, maxWidth)

----------------------------------------------------------------------------
(* The report endpoint: POST *)

\* the object literal { overallSummary: cleaned }
SummaryOnly(cleaned) == Obj(<< <<<<"overallSummary">>, StrV(cleaned)>> >>)

\* cleaned.slice(cleaned.indexOf("{"), cleaned.lastIndexOf("}") + 1)
BraceSlice(cleaned) ==
  IF Has(cleaned, "{") /\ Has(cleaned, "}")
  THEN SubSeq(cleaned, FirstIndex(cleaned, "{"), LastIndex(cleaned, "}"))
  ELSE <<>>

\* normalized for a gapAnalysis that is a string
NormalizedString(s) ==
  LET cleaned == Trim(s)
      p == JSONParse(cleaned)
  IN IF p.ok THEN p.v
     ELSE IF StartsWith(cleaned, "{") /\ NamesSummary(cleaned)
     THEN OrElse(JSONParse(BraceSlice(cleaned)), SummaryOnly(cleaned))
     ELSE SummaryOnly(cleaned)

\* normalized for any other truthy gapAnalysis: the spread copy, replaced by
\* the object its overallSummary holds as JSON text; overallSummary?.trim()
\* throws when overallSummary is neither nullish nor a string
NormalizedObject(g) ==
  LET copy == IF g.t = "object" THEN g ELSE Obj(<<>>)
      os == Get(copy, <<"overallSummary">>)
      raw == Trim(os.s)
      inner == JSONParse(raw)
  IN IF Nullish(os) THEN Ret(copy)
     ELSE IF ~IsString(os) THEN Thrown
     ELSE IF raw # <<>> /\ StartsWith(raw, "{") /\ NamesSummary(raw)
             /\ inner.ok /\ IsObjectLike(inner.v)
     THEN Ret(inner.v)
     ELSE Ret(copy)

Normalized(g) == IF IsString(g) THEN Ret(NormalizedString(g.s)) ELSE NormalizedObject(g)

\* normalized.key: reading a member of null throws
Field(normalized, key) ==
  IF normalized.t = "null" THEN Thrown ELSE Ret(Get(normalized, <<key>>))

\* What POST draws below the report title, in order.  op says which helper
\* draws the block; kind names the block; needed and step are the arguments
\* of ensureSpace and the cursor's move; lines counts wrapped lines.
Block(op, kind, needed, step, lines, last) ==
  [op |-> op, kind |-> kind, needed |-> needed, step |-> step, lines |-> lines, last |-> last]

TextLines(kind, needed, step, n) ==
  [k \in 1..n |-> Block("line", kind, needed, step, 1, k = n)]
Skip(by) == Block("skip", "gap", 0, by, 0, FALSE)
Title(name) == Block("title", name, 36000, 22000, 1, FALSE)

\* metaParts.join(" | ")
MetaText(role, company, industry) ==
  LET parts == (IF Truthy(role) THEN <<<<"Target role:", SP>> \o role.s>> ELSE <<>>)
               \o (IF Truthy(company) THEN <<<<"Target company:", SP>> \o company.s>> ELSE <<>>)
               \o (IF Truthy(industry) THEN <<<<"Industry:", SP>> \o industry.s>> ELSE <<>>)
  IN IF parts = <<>> THEN <<>>
     ELSE Joined([k \in 1..(2 * Len(parts) - 1) |->
                    IF k % 2 = 1 THEN parts[(k + 1) \div 2] ELSE <<"|">>],
                 1, 2 * Len(parts) - 1)

MetaBlocks(meta) ==
  IF meta = <<>> THEN <<>>
  ELSE TextLines("meta", 14000, 12000, Len(wrapText(meta, 10, MaxWidth))) \o <<Skip(8000)>>

\* drawParagraph(text)
Paragraph(text) ==
  IF text = <<>> THEN <<>>
  ELSE TextLines("paragraph", 15000, 14000, Len(wrapText(text, 10, MaxWidth)))
       \o <<Skip(8000)>>

\* drawBullets(items)
RECURSIVE BulletItems(_)
BulletItems(items) ==
  IF items = <<>> THEN <<>>
  ELSE TextLines("bullet", 15000, 14000, Len(wrapText(Head(items), 10, MaxWidth - 14000)))
       \o <<Skip(10000)>> \o BulletItems(Tail(items))

Bullets(items) == IF items = <<>> THEN <<>> ELSE BulletItems(items) \o <<Skip(6000)>>

FitBlocks(text) ==
  <<Title("Trajectory fit")>>
  \o (IF text = <<>> THEN <<>>
      ELSE <<Block("bar", "fit label", 30000, 28000, 1, FALSE)>>
           \o Paragraph(text) \o <<Skip(6000)>>)

AnchorBlocks(list) ==
  IF list = <<>> THEN <<>>
  ELSE <<Title("Career anchors")>>
       \o [i \in 1..Len(list) |->
             Block("card", "card label", CardHeight + 20000, 11000,
                   Len(wrapText(parseCareerAnchors(list)[i].name, 9, CardTextWidth)),
                   i = Len(list))]

DASH == "--"              \* the em dash

\* s.resourceUrl ? name + " " + DASH + " " + resourceUrl : name
TechItem(s) ==
  IF Truthy(s.resourceUrl) THEN s.name \o <<SP, DASH, SP>> \o s.resourceUrl.s ELSE s.name

GapBlocks(gaps) ==
  LET tech == gaps.missingTechnical
      soft == gaps.missingSoft
  IN IF tech = <<>> /\ soft = <<>> THEN <<>>
     ELSE <<Title("Skill gaps")>>
          \o (IF tech = <<>> THEN <<>>
              ELSE Paragraph(<<"Technical", SP, "skills", SP, "(with", SP, "suggested",
                               SP, "resources):">>)
                   \o <<Skip(4000)>>
                   \o Bullets([i \in 1..Len(tech) |-> TechItem(tech[i])])
                   \o <<Skip(6000)>>)
          \o (IF soft = <<>> THEN <<>>
              ELSE Paragraph(<<"Soft", SP, "skills:">>) \o <<Skip(4000)>> \o Bullets(soft))

ActionBlocks(list) ==
  IF list = <<>> THEN <<>>
  ELSE <<Title("Concrete actions")>>
       \o [i \in 1..Len(list) |->
             Block("item", "checklist item", 0, 14000,
                   Len(wrapText(list[i], 10, MaxWidth - 16000)), i = Len(list))]

Blocks(meta, summary, fit, anchors, gaps, actions) ==
  IF summary.ok /\ fit.ok /\ anchors.ok /\ gaps.ok /\ actions.ok
  THEN Ret(MetaBlocks(meta)
           \o <<Title("Overall summary")>> \o Paragraph(summary.v)
           \o FitBlocks(fit.v) \o AnchorBlocks(anchors.v)
           \o GapBlocks(gaps.v) \o ActionBlocks(actions.v))
  ELSE Thrown

\* the sections in the order POST reads and draws them
Layout(normalized, meta) ==
  Blocks(meta,
         Then(Field(normalized, "overallSummary"), safeSectionText),
         Then(Field(normalized, "trajectoryFit"), safeSectionText),
         Then(Field(normalized, "careerAnchors"), safeStringArray),
         Then(Field(normalized, "skillGaps"), safeSkillGaps),
         Then(Field(normalized, "concreteActions"), safeStringArray))

----------------------------------------------------------------------------
(* The report endpoint: drawing *)

NoBlock == [kind |-> "none", page |-> 0, top |-> PageHeight, y |-> PageHeight]
NoReply == [status |-> 0, type |-> "none", pages |-> 0]

nextBlock == blocks[bidx]

\* ensureSpace(needed), called with the cursor at y: whether it adds a page,
\* and the cursor it leaves
Breaks(y, needed) == y - needed < BottomMargin
Ensured(y, needed) == IF Breaks(y, needed) THEN PageHeight - TopOffset ELSE y
PagesAfter(y, needed) == IF Breaks(y, needed) THEN pages + 1 ELSE pages

\* POST up to the report title: the 400 reply, normalisation, the first page,
\* the logo if it can be read, the title
ReceiveReport ==
  /\ rpc = "receive"
  /\ IF ~Truthy(request.gapAnalysis)
     THEN /\ reply' = [status |-> 400, type |-> "application/json", pages |-> 0]
          /\ rpc' = "done"
          /\ UNCHANGED <<blocks, bidx, cursorY, pages, logoDrawn>>
     ELSE LET layout == Then(Normalized(request.gapAnalysis),
                             LAMBDA n : Layout(n, MetaText(request.targetRole,
                                                           request.targetCompany,
                                                           request.targetIndustry)))
          IN IF layout.ok
             THEN /\ blocks' = layout.v
                  /\ bidx' = 1
                  /\ pages' = 1
                  /\ logoDrawn' = request.logo
                  /\ cursorY' = PageHeight - TitleOffset
                  /\ rpc' = "draw"
                  /\ UNCHANGED reply
             ELSE /\ reply' = [status |-> 500, type |-> "thrown", pages |-> 0]
                  /\ rpc' = "done"
                  /\ UNCHANGED <<blocks, bidx, cursorY, pages, logoDrawn>>
  /\ UNCHANGED <<request, col, rowTopY, drawn>>

\* one line of the meta text, of drawParagraph or of drawBullets
DrawTextLine ==
  /\ rpc = "draw" /\ bidx <= Len(blocks) /\ nextBlock.op = "line"
  /\ LET y == Ensured(cursorY, nextBlock.needed)
     IN /\ drawn' = [kind |-> nextBlock.kind, page |-> PagesAfter(cursorY, nextBlock.needed),
                     top |-> y, y |-> y]
        /\ cursorY' = y - nextBlock.step
        /\ pages' = PagesAfter(cursorY, nextBlock.needed)
  /\ bidx' = bidx + 1
  /\ UNCHANGED <<rpc, request, blocks, col, rowTopY, logoDrawn, reply>>

\* the cursor moves that follow a block: cursorY -= 8, 4, 6, 10
MoveCursor ==
  /\ rpc = "draw" /\ bidx <= Len(blocks) /\ nextBlock.op = "skip"
  /\ cursorY' = cursorY - nextBlock.step
  /\ bidx' = bidx + 1
  /\ UNCHANGED <<rpc, request, blocks, pages, col, rowTopY, drawn, logoDrawn, reply>>

\* drawSectionTitle: sectionGap, ensureSpace(36), the title, cursorY -= 22
drawSectionTitle ==
  /\ rpc = "draw" /\ bidx <= Len(blocks) /\ nextBlock.op = "title"
  /\ LET y == Ensured(cursorY - 20000, nextBlock.needed)
     IN /\ drawn' = [kind |-> nextBlock.kind,
                     page |-> PagesAfter(cursorY - 20000, nextBlock.needed),
                     top |-> y, y |-> y]
        /\ cursorY' = y - nextBlock.step
        /\ pages' = PagesAfter(cursorY - 20000, nextBlock.needed)
  /\ bidx' = bidx + 1
  /\ UNCHANGED <<rpc, request, blocks, col, rowTopY, logoDrawn, reply>>

\* the fit bar: ensureSpace(30), the bar at cursorY - 8, its label 10 above
DrawFitBar ==
  /\ rpc = "draw" /\ bidx <= Len(blocks) /\ nextBlock.op = "bar"
  /\ LET y == Ensured(cursorY, nextBlock.needed)
     IN /\ drawn' = [kind |-> nextBlock.kind, page |-> PagesAfter(cursorY, nextBlock.needed),
                     top |-> y - 8000 + 10000, y |-> y - 8000 + 10000]
        /\ cursorY' = y - nextBlock.step
        /\ pages' = PagesAfter(cursorY, nextBlock.needed)
  /\ bidx' = bidx + 1
  /\ UNCHANGED <<rpc, request, blocks, col, rowTopY, logoDrawn, reply>>

\* one career-anchor card: a new row asks for cardHeight + 20, the label's
\* lines go down from topY - 66 by 11 each, the third card ends the row, and
\* after the last card the cursor goes below the row
DrawAnchorCard ==
  /\ rpc = "draw" /\ bidx <= Len(blocks) /\ nextBlock.op = "card"
  /\ LET y == IF col = 0 THEN Ensured(cursorY, nextBlock.needed) ELSE cursorY
         topY == IF col = 0 THEN y ELSE rowTopY
         bottomY == topY - CardHeight
         next == IF col + 1 >= Columns THEN 0 ELSE col + 1
         below == IF col + 1 >= Columns THEN bottomY - 24000 ELSE y
     IN /\ rowTopY' = topY
        /\ pages' = IF col = 0 THEN PagesAfter(cursorY, nextBlock.needed) ELSE pages
        /\ drawn' = [kind |-> nextBlock.kind,
                     page |-> IF col = 0 THEN PagesAfter(cursorY, nextBlock.needed) ELSE pages,
                     top |-> topY - 66000,
                     y |-> topY - 66000 - nextBlock.step * (nextBlock.lines - 1)]
        /\ col' = IF nextBlock.last THEN 0 ELSE next
        /\ cursorY' = IF ~nextBlock.last THEN below
                      ELSE (IF next # 0 THEN topY - CardHeight - 24000 ELSE below) - 8000
  /\ bidx' = bidx + 1
  /\ UNCHANGED <<rpc, request, blocks, logoDrawn, reply>>

\* one checklist item: ensureSpace(16 * lines + 14), the checkbox, the lines
\* from cursorY down by 14 each, cursorY = textY - 12
DrawChecklistItem ==
  /\ rpc = "draw" /\ bidx <= Len(blocks) /\ nextBlock.op = "item"
  /\ LET requiredHeight == 16000 * nextBlock.lines + 14000
         y == Ensured(cursorY, requiredHeight)
     IN /\ drawn' = IF nextBlock.lines = 0 THEN drawn
                    ELSE [kind |-> nextBlock.kind, page |-> PagesAfter(cursorY, requiredHeight),
                          top |-> y, y |-> y - nextBlock.step * (nextBlock.lines - 1)]
        /\ cursorY' = y - nextBlock.step * nextBlock.lines - 12000
        /\ pages' = PagesAfter(cursorY, requiredHeight)
  /\ bidx' = bidx + 1
  /\ UNCHANGED <<rpc, request, blocks, col, rowTopY, logoDrawn, reply>>

\* pdfDoc.save() and the application/pdf response
SavePdf ==
  /\ rpc = "draw" /\ bidx > Len(blocks)
  /\ reply' = [status |-> 200, type |-> "application/pdf", pages |-> pages]
  /\ rpc' = "done"
  /\ UNCHANGED <<request, blocks, bidx, cursorY, pages, col, rowTopY, drawn, logoDrawn>>

----------------------------------------------------------------------------
(* Requests to the report endpoint *)

MaxSummaryLines == 27
MaxAnchors == 4
MaxLabelWords == 60
MaxActions == 30
MaxActionWords == 260

Long == "internationalisation"

\* n copies of the word w with single spaces between
Words(w, n) == [k \in 1..(2 * n - 1) |-> IF k % 2 = 1 THEN w ELSE SP]

\* a report whose summary has s words, with a anchors of w words each and n
\* actions of m words each
SizedReport(s, a, w, n, m) ==
  Obj(<< <<<<"overallSummary">>, StrV(Words(Long, s))>>,
         <<<<"trajectoryFit">>, StrV(IF s = 0 THEN <<>> ELSE <<"High", SP, "fit">>)>>,
         <<<<"careerAnchors">>,
           Arr([i \in 1..a |-> StrV(<<"80", "%", SP>> \o Words(Long, w))])>>,
         <<<<"skillGaps">>,
           Obj(<< <<<<"missingTechnical">>,
                    Arr(IF n = 0 THEN <<>>
                        ELSE <<Obj(<< <<<<"name">>, StrV(<<"sql">>)>>,
                                      <<<<"resourceUrl">>, StrV(<<"url">>)>> >>)>>)>>,
                  <<<<"missingSoft">>, Arr(IF a = 0 THEN <<>> ELSE <<StrV(<<"comms">>)>>)>> >>)>>,
         <<<<"concreteActions">>, Arr([i \in 1..n |-> StrV(Words(Long, m))])>> >>)

ActionSizes == { <<0, 1>>, <<2, 1>>, <<MaxActions, 1>>, <<1, MaxActionWords>> }

SizedReports ==
  { SizedReport(s, a, w, nm[1], nm[2]) :
      s \in {0, 6, 6 * MaxSummaryLines}, a \in {0, 1, MaxAnchors},
      w \in {1, 9, MaxLabelWords}, nm \in ActionSizes }

\* an object that String() cannot convert
Unprintable == Obj(<< <<<<"toString">>, Num("1")>> >>)

SmallReport == SizedReport(6, 1, 1, 2, 1)

\* gapAnalysis values of other shapes and types
OddValues ==
  { Undefined, Null, StrV(<<>>), Num("42"), Bool(TRUE), Arr(<<StrV(<<"a">>)>>), Obj(<<>>),
    StrV(<<"Strong", SP, "fit", SP, "overall">>),
    StrV(<<SP>> \o Stringify(SmallReport) \o <<SP>>),
    StrV(<<"null">>), StrV(<<"42">>), StrV(<<"[", "]">>),
    StrV(<<"{", "overallSummary", SP, "cut">>),
    StrV(<<"{", "overallSummary">> \o Stringify(SmallReport) \o <<"}", SP, "end">>),
    Obj(<< <<<<"overallSummary">>, StrV(Stringify(SmallReport))>> >>),
    Obj(<< <<<<"overallSummary">>, StrV(<<"{", "overallSummary", SP, "cut">>)>> >>),
    Obj(<< <<<<"overallSummary">>, Num("42")>> >>),
    Obj(<< <<<<"overallSummary">>, SmallReport>> >>),
    Obj(<< <<<<"overallSummary">>, Null>>, <<<<"trajectoryFit">>, Num("7")>>,
           <<<<"careerAnchors">>, StrV(Stringify(Arr(<<StrV(<<"a">>), Num("7"), Null>>)))>>,
           <<<<"skillGaps">>,
             Obj(<< <<<<"missingTechnical">>,
                      Arr(<<StrV(<<"sql">>), Null, Obj(<< <<<<"name">>, Null>> >>),
                            Obj(<< <<<<"name">>, Num("7")>> >>)>>)>>,
                    <<<<"missingSoft">>, StrV(<<"comms">>)>> >>)>>,
           <<<<"concreteActions">>, Arr(<<StrV(<<SP>>), Num("7"), Null, Arr(<<>>)>>)>> >>),
    Obj(<< <<<<"trajectoryFit">>, Unprintable>> >>),
    Obj(<< <<<<"careerAnchors">>, Arr(<<Unprintable>>)>> >>),
    Obj(<< <<<<"careerAnchors">>, StrV(Stringify(Arr(<<Unprintable>>)))>> >>),
    Obj(<< <<<<"skillGaps">>, Obj(<< <<<<"missingTechnical">>, Arr(<<Unprintable>>)>> >>)>> >>),
    Obj(<< <<<<"careerAnchors">>, Arr(<<StrV(<<"%">>), StrV(<<"7", SP, "%">>),
                                        StrV(<<"250", "%", SP, "a">>)>>)>> >>) }

ReportRequest(g, meta, logo) ==
  [gapAnalysis |-> g,
   targetRole |-> IF meta THEN StrV(<<"a">>) ELSE Undefined,
   targetCompany |-> IF meta THEN StrV(Words(Long, 7)) ELSE StrV(<<>>),
   targetIndustry |-> IF meta THEN StrV(<<"b">>) ELSE Undefined,
   logo |-> logo]

ReportRequests ==
  { ReportRequest(g, meta, logo) :
      g \in SizedReports \cup OddValues, meta \in BOOLEAN, logo \in BOOLEAN }

RenInit ==
  /\ request \in ReportRequests
  /\ rpc = "receive" /\ blocks = <<>> /\ bidx = 0 /\ cursorY = 0 /\ pages = 0
  /\ col = 0 /\ rowTopY = 0 /\ drawn = NoBlock /\ logoDrawn = FALSE /\ reply = NoReply
  /\ GapIdle /\ PatIdle /\ ImpIdle /\ CvIdle /\ DiscIdle /\ CacheIdle /\ MapIdle /\ SectIdle /\ FitIdle /\ AuthIdle /\ EarlyIdle /\ FormIdle /\ FlightIdle

RenNext ==
  \/ ReceiveReport /\ UNCHANGED <<gapVars, patVars, impVars, cvVars, discVars, cacheVars, mapVars, sectVars, fitVars, authVars, earlyVars, formVars, flightVars>>
  \/ DrawTextLine /\ UNCHANGED <<gapVars, patVars, impVars, cvVars, discVars, cacheVars, mapVars, sectVars, fitVars, authVars, earlyVars, formVars, flightVars>>
  \/ MoveCursor /\ UNCHANGED <<gapVars, patVars, impVars, cvVars, discVars, cacheVars, mapVars, sectVars, fitVars, authVars, earlyVars, formVars, flightVars>>
  \/ drawSectionTitle /\ UNCHANGED <<gapVars, patVars, impVars, cvVars, discVars, cacheVars, mapVars, sectVars, fitVars, authVars, earlyVars, formVars, flightVars>>
  \/ DrawFitBar /\ UNCHANGED <<gapVars, patVars, impVars, cvVars, discVars, cacheVars, mapVars, sectVars, fitVars, authVars, earlyVars, formVars, flightVars>>
  \/ DrawAnchorCard /\ UNCHANGED <<gapVars, patVars, impVars, cvVars, discVars, cacheVars, mapVars, sectVars, fitVars, authVars, earlyVars, formVars, flightVars>>
  \/ DrawChecklistItem /\ UNCHANGED <<gapVars, patVars, impVars, cvVars, discVars, cacheVars, mapVars, sectVars, fitVars, authVars, earlyVars, formVars, flightVars>>
  \/ SavePdf /\ UNCHANGED <<gapVars, patVars, impVars, cvVars, discVars, cacheVars, mapVars, sectVars, fitVars, authVars, earlyVars, formVars, flightVars>>

RenSpec == RenInit /\ [][RenNext]_vars

----------------------------------------------------------------------------
(* Properties of the report renderer *)

\* the height the checklist items blocks[lo..hi] take: 14 a line and 12 below
RECURSIVE ItemHeights(_, _)
ItemHeights(lo, hi) ==
  IF lo > hi THEN 0
  ELSE IF lo = hi
  THEN (IF blocks[lo].op = "item" THEN 14000 * blocks[lo].lines + 12000 ELSE 0)
  ELSE ItemHeights(lo, (lo + hi) \div 2) + ItemHeights((lo + hi) \div 2 + 1, hi)

\* C11: no drawn text block crosses the bottom margin: every line of every
\* block the renderer draws, whatever the size of the report, has its
\* baseline at or above bottomMargin on the page it is drawn on, and a list
\* of concrete actions that does not fit on one page gives a document of at
\* least two pages.
C11_AboveBottomMargin ==
  /\ drawn.kind # "none" => drawn.y >= BottomMargin
  /\ (reply.status = 200 /\ ItemHeights(1, Len(blocks)) > PageHeight - TopOffset - BottomMargin)
       => reply.pages >= 2

\* the request carries a gapAnalysis value: an object or a non-empty string
CarriesGapAnalysis ==
  request.gapAnalysis.t \in {"object", "string"} /\ Truthy(request.gapAnalysis)

\* C12: every request that carries a gapAnalysis value, an object or a
\* string with fields of any type, is answered with a PDF document: the
\* handler throws nothing, whether or not the logo can be read.
C12_AlwaysPdf ==
  (rpc = "done" /\ CarriesGapAnalysis)
    => (reply.status = 200 /\ reply.type = "application/pdf" /\ reply.pages >= 1)

----------------------------------------------------------------------------
(* The CV upload: handleParse and parsePdfWithAI *)

\* an error value: an Error with its message, or a thrown value that is no Error
ErrorOf(message) == [isError |-> TRUE, message |-> message]
ThrownValue(text) == [isError |-> FALSE, message |-> text]

\* const msg = err instanceof Error ? err.message : String(err);
\* msg.includes("429") || msg.toLowerCase().includes("rate limit")
isRateLimit(err) ==
  \/ Has(err.message, "429")
  \/ Includes(ToLowerCase(err.message), <<"rate", SP, "limit">>)

\* the result objects of parsePdfWithAI
Failure(error) == [success |-> FALSE, error |-> error]
Success(data) == [success |-> TRUE, data |-> data]
NoResult == [success |-> FALSE, error |-> <<"pending">>]

\* the catch around the OpenAI call and the reading of its completion
OpenAIError(e) ==
  LET message == IF e.isError THEN e.message ELSE <<"AI analysis failed.">>
      lower == ToLowerCase(message)
  IN IF Has(message, "401") \/ Has(lower, "invalid")
        \/ Includes(lower, <<"incorrect", SP, "api", SP, "key">>)
     THEN Failure(<<"Invalid API key. Check OPENAI_API_KEY in .env.local.">>)
     ELSE IF isRateLimit(e)
     THEN Failure(<<"OpenAI rate limit reached.">>)
     ELSE Failure(message)

\* rawKey.trim().split(/\r?\n/)[0].trim()
ApiKey(env) ==
  LET rawKey == IF Nullish(env) THEN <<>> ELSE env.s
  IN Trim(Split(Trim(rawKey), NL)[1])

\* data.skills.map(String).map(s => s.trim()).filter(Boolean)
RECURSIVE TrimmedStrings(_)
TrimmedStrings(es) ==
  IF es = <<>> THEN Ret(<<>>)
  ELSE LET Cons(s, t) == (IF Trim(s) # <<>> THEN <<Trim(s)>> ELSE <<>>) \o t
       IN Both(ToStringJS(Head(es)), TrimmedStrings(Tail(es)), Cons)

\* s.split(sep).map(s => s.trim()).filter(Boolean) for a set of separators
Pieces(s, seps) ==
  LET one == [k \in 1..Len(s) |-> IF s[k] \in seps THEN NL ELSE s[k]]
      parts == Split(one, NL)
  IN SelectSeq([k \in 1..Len(parts) |-> Trim(parts[k])], LAMBDA p : p # <<>>)

normalizedSkills(data) ==
  LET skills == Get(data, <<"skills">>)
  IN IF IsArray(skills) THEN TrimmedStrings(skills.a)
     ELSE IF IsString(skills) /\ Trim(skills.s) # <<>>
     THEN Ret(Pieces(skills.s, {",", ";", NL}))
     ELSE Ret(<<>>)

\* what one entry of data.internships adds to the result
InternshipOf(item) ==
  IF ~Truthy(item) THEN <<>>
  ELSE IF IsString(item) THEN (IF Trim(item.s) # <<>> THEN <<Trim(item.s)>> ELSE <<>>)
  ELSE IF TypeofObject(item)
  THEN LET c == Get(item, <<"company">>)
           r == Get(item, <<"role">>)
           company == IF IsString(c) THEN Trim(c.s) ELSE <<>>
           role == IF IsString(r) THEN Trim(r.s) ELSE <<>>
       IN IF company # <<>> /\ role # <<>> THEN <<company \o <<SP, "-", SP>> \o role>> ELSE <<>>
  ELSE <<>>

RECURSIVE InternshipsOf(_)
InternshipsOf(es) ==
  IF es = <<>> THEN <<>> ELSE InternshipOf(Head(es)) \o InternshipsOf(Tail(es))

normalizedInternships(data) ==
  LET internships == Get(data, <<"internships">>)
  IN IF IsArray(internships) THEN InternshipsOf(internships.a)
     ELSE IF IsString(internships) /\ Trim(internships.s) # <<>>
     THEN Pieces(internships.s, {NL, ";"})
     ELSE <<>>

\* typeof v === "string" ? v : fallback
StringOr(v, fallback) == IF IsString(v) THEN v ELSE fallback

\* v ?? fallback
Coalesce(v, fallback) == IF Nullish(v) THEN fallback ELSE v

\* the ParsedCV built from the parsed completion; reading a member of null
\* throws, and so does String() of a value that cannot be converted
ParsedCV(data) ==
  IF data.t = "null" THEN Thrown
  ELSE LET gpa == Get(data, <<"gpa">>)
           Build(skills, gpaText) ==
             [name |-> StringOr(Get(data, <<"full_name">>),
                                StringOr(Get(data, <<"name">>), StrV(<<>>))).s,
              university |-> StringOr(Get(data, <<"university">>), StrV(<<>>)).s,
              gpa |-> gpaText,
              skills |-> skills,
              internships |-> normalizedInternships(data),
              leadership_positions |-> StringOr(Get(data, <<"leadership_positions">>), Null),
              projects |-> StringOr(Get(data, <<"projects">>), Null),
              others |-> StringOr(Get(data, <<"others">>), Null),
              entrepreneurial_leadership |->
                Coalesce(Get(data, <<"entrepreneurial_leadership">>), Bool(FALSE)),
              personal_impact |-> Coalesce(Get(data, <<"personal_impact">>), Bool(FALSE))]
       IN Both(normalizedSkills(data),
               IF IsString(gpa) THEN Ret(gpa.s) ELSE ToStringJS(Coalesce(gpa, StrV(<<>>))),
               Build)

\* a completion: its choices, each with the content of its message
Completion(choices) == [choices |-> choices]

\* what parsePdfWithAI returns for a completion
CompletionResult(c) ==
  IF Nullish(c.choices) \/ c.choices.a = <<>>
  THEN Failure(<<"AI returned no choices.">>)
  ELSE LET raw == c.choices.a[1]
       IN IF ~IsString(raw) \/ Trim(raw.s) = <<>>
          THEN Failure(<<"AI returned an empty response.">>)
          ELSE LET data == JSONParse(raw.s)
               IN IF ~data.ok THEN Failure(<<"AI returned invalid JSON.">>)
                  ELSE LET parsed == ParsedCV(data.v)
                       IN IF parsed.ok THEN Success(parsed.v)
                          ELSE OpenAIError(ErrorOf(<<"TypeError">>))

maxSizeBytes == 5 * 1024 * 1024
RetryDelayMs == 3000

\* what a call of openai.chat.completions.create gives: a completion, or a
\* rejection with an error
Completed(c) ==
  [failed |-> FALSE, err |-> ErrorOf(<<>>), completion |-> c]
Rejected(err) == [failed |-> TRUE, err |-> err, completion |-> Completion(Undefined)]

\* the text extractText gives for the body of a file
ExtractedText(body) ==
  CASE body = "text" -> <<"cv", SP, "text">>
    [] body = "blank" -> <<SP, NL>>
    [] OTHER -> <<>>

\* the upload form's handleParse up to the call of the server action
handleParse ==
  /\ cpc = "handleParse"
  /\ IF upload.kind # "file"
     THEN cpc' = "done" /\ UNCHANGED <<parsing, uiError, uiParsed>>
     ELSE IF upload.size > maxSizeBytes
     THEN /\ uiError' = <<"PDF is too large (max 5 MB).">>
          /\ cpc' = "done"
          /\ UNCHANGED <<parsing, uiParsed>>
     ELSE /\ parsing' = TRUE /\ uiError' = <<>> /\ uiParsed' = Null
          /\ cpc' = "file"
  /\ UNCHANGED <<entry, upload, envKey, extracted, calls, clock, caught, completion, result>>

\* formData.get("pdf") and the check that it is a file
CheckFile ==
  /\ cpc = "file"
  /\ IF upload.kind # "file"
     THEN result' = Failure(<<"Please upload a valid PDF file.">>) /\ cpc' = "return"
     ELSE cpc' = "read" /\ UNCHANGED result
  /\ UNCHANGED <<entry, upload, envKey, extracted, calls, clock, caught, completion,
                 parsing, uiError, uiParsed>>

\* file.arrayBuffer() and the check for an empty file
ReadFile ==
  /\ cpc = "read"
  /\ IF upload.body = "unreadable"
     THEN result' = Failure(<<"PDF could not be read.">>) /\ cpc' = "return"
     ELSE IF upload.size = 0
     THEN result' = Failure(<<"The uploaded file is empty.">>) /\ cpc' = "return"
     ELSE cpc' = "extract" /\ UNCHANGED result
  /\ UNCHANGED <<entry, upload, envKey, extracted, calls, clock, caught, completion,
                 parsing, uiError, uiParsed>>

\* an extraction whose failure is ignored
ExtractTextUnchecked ==
  /\ cpc = "extract"
  /\ extracted' = TRUE
  /\ cpc' = "key"
  /\ UNCHANGED <<entry, upload, envKey, calls, clock, caught, completion, result,
                 parsing, uiError, uiParsed>>

\* extractText(data, { mergePages: true }) and the check for text
ExtractText ==
  /\ cpc = "extract"
  /\ extracted' = TRUE
  /\ IF upload.body = "corrupt"
     THEN result' = Failure(<<"PDF could not be read.">>) /\ cpc' = "return"
     ELSE IF \A k \in 1..Len(ExtractedText(upload.body)) : IsWs(ExtractedText(upload.body)[k])
     THEN result' = Failure(<<"No text could be extracted from the PDF.">>) /\ cpc' = "return"
     ELSE cpc' = "key" /\ UNCHANGED result
  /\ UNCHANGED <<entry, upload, envKey, calls, clock, caught, completion,
                 parsing, uiError, uiParsed>>

\* the API key read from the environment
CheckKey ==
  /\ cpc = "key"
  /\ IF ApiKey(envKey) = <<>>
     THEN result' = Failure(<<"OpenAI API key is not configured.">>) /\ cpc' = "return"
     ELSE cpc' = "call" /\ UNCHANGED result
  /\ UNCHANGED <<entry, upload, envKey, extracted, calls, clock, caught, completion,
                 parsing, uiError, uiParsed>>

\* a first call that goes on to the retry after any error
CallOpenAIRetryingAnyError(outcome) ==
  /\ cpc = "call"
  /\ calls' = Append(calls, [at |-> clock, outcome |-> outcome])
  /\ IF ~outcome.failed
     THEN completion' = outcome.completion /\ cpc' = "completion"
     ELSE cpc' = "delay" /\ UNCHANGED completion
  /\ UNCHANGED <<entry, upload, envKey, extracted, clock, caught, result, parsing, uiError,
                 uiParsed>>

\* the first callOpenAI(): a rate-limit error leads to the delay, any other
\* error is thrown on
CallOpenAI(outcome) ==
  /\ cpc = "call"
  /\ calls' = Append(calls, [at |-> clock, outcome |-> outcome])
  /\ IF ~outcome.failed
     THEN completion' = outcome.completion /\ cpc' = "completion" /\ UNCHANGED caught
     ELSE IF isRateLimit(outcome.err)
     THEN cpc' = "delay" /\ UNCHANGED <<caught, completion>>
     ELSE caught' = outcome.err /\ cpc' = "catch" /\ UNCHANGED completion
  /\ UNCHANGED <<entry, upload, envKey, extracted, clock, result, parsing, uiError, uiParsed>>

\* await new Promise((r) => setTimeout(r, 3000))
RetryDelay ==
  /\ cpc = "delay"
  /\ clock' = clock + RetryDelayMs
  /\ cpc' = "retry"
  /\ UNCHANGED <<entry, upload, envKey, extracted, calls, caught, completion, result,
                 parsing, uiError, uiParsed>>

\* the second callOpenAI(): its error is thrown on
RetryCall(outcome) ==
  /\ cpc = "retry"
  /\ calls' = Append(calls, [at |-> clock, outcome |-> outcome])
  /\ IF ~outcome.failed
     THEN completion' = outcome.completion /\ cpc' = "completion" /\ UNCHANGED caught
     ELSE caught' = outcome.err /\ cpc' = "catch" /\ UNCHANGED completion
  /\ UNCHANGED <<entry, upload, envKey, extracted, clock, result, parsing, uiError, uiParsed>>

\* the completion is read and the ParsedCV returned
ReadCompletionOfCV ==
  /\ cpc = "completion"
  /\ result' = CompletionResult(completion)
  /\ cpc' = "return"
  /\ UNCHANGED <<entry, upload, envKey, extracted, calls, clock, caught, completion,
                 parsing, uiError, uiParsed>>

\* catch (e) around the OpenAI call
CatchOpenAIError ==
  /\ cpc = "catch"
  /\ result' = OpenAIError(caught)
  /\ cpc' = "return"
  /\ UNCHANGED <<entry, upload, envKey, extracted, calls, clock, caught, completion,
                 parsing, uiError, uiParsed>>

\* the result reaches the caller; handleParse shows it and clears parsing
ReturnResult ==
  /\ cpc = "return"
  /\ IF entry = "form"
     THEN /\ parsing' = FALSE
          /\ uiError' = IF result.success THEN <<>> ELSE result.error
          /\ uiParsed' = IF result.success THEN result.data ELSE Null
     ELSE UNCHANGED <<parsing, uiError, uiParsed>>
  /\ cpc' = "done"
  /\ UNCHANGED <<entry, upload, envKey, extracted, calls, clock, caught, completion, result>>

\* the call of the server action rejects (the connection is lost): the catch
\* and the finally of handleParse; a message about the network is replaced
ConnectionLost(rawMessage) ==
  /\ entry = "form"
  /\ cpc \in {"file", "read", "extract", "key", "call", "delay", "retry", "completion",
              "catch", "return"}
  /\ uiError' = IF rawMessage = <<"Load failed">>
                   \/ Has(ToLowerCase(rawMessage), "network")
                THEN <<"The request was interrupted or timed out.">>
                ELSE rawMessage
  /\ uiParsed' = Null
  /\ parsing' = FALSE
  /\ cpc' = "done"
  /\ UNCHANGED <<entry, upload, envKey, extracted, calls, clock, caught, completion, result>>

----------------------------------------------------------------------------
(* Uploads, keys and upstream outcomes *)

\* what the form holds, or what a direct call of the action passes as "pdf"
Upload(kind, size, body) == [kind |-> kind, size |-> size, body |-> body]

Uploads ==
  { Upload("none", 0, "none"), Upload("string", 0, "none") }
  \cup { Upload("file", size, body) :
           size \in {1000, maxSizeBytes, maxSizeBytes + 1},
           body \in {"unreadable", "corrupt", "blank", "scanned", "text"} }
  \cup { Upload("file", 0, "empty") }

EnvKeys ==
  { Undefined, StrV(<<>>), StrV(<<SP, NL>>), StrV(<<"sk-1">>),
    StrV(<<SP, "sk-1", SP, NL, "junk">>) }

CvValue ==
  Obj(<< <<<<"full_name">>, StrV(<<"Ada">>)>>,
         <<<<"university">>, StrV(<<"MIT">>)>>,
         <<<<"gpa">>, Num("4")>>,
         <<<<"skills">>, Arr(<<StrV(<<SP, "sql">>), Num("7"), StrV(<<>>)>>)>>,
         <<<<"internships">>,
           Arr(<<StrV(<<"Acme", SP, "-", SP, "Analyst">>), Null,
                 Obj(<< <<<<"company">>, StrV(<<"Acme">>)>>,
                        <<<<"role">>, StrV(<<"Intern">>)>> >>),
                 Obj(<< <<<<"company">>, StrV(<<"Acme">>)>> >>)>>)>>,
         <<<<"projects">>, Null>> >>)

LooseCvValue ==
  Obj(<< <<<<"name">>, StrV(<<"Ada">>)>>,
         <<<<"skills">>, StrV(<<"sql", ",", SP, "r", ";", "go">>)>>,
         <<<<"internships">>, StrV(<<"Acme", ";", SP, "Bolt">>)>>,
         <<<<"personal_impact">>, StrV(<<"led">>)>> >>)

Outcomes ==
  { Completed(Completion(c)) :
      c \in { Undefined, Arr(<<>>), Arr(<<Null>>), Arr(<<StrV(<<SP>>)>>),
              Arr(<<StrV(<<"{">>)>>), Arr(<<StrV(<<"null">>)>>),
              Arr(<<StrV(Stringify(CvValue))>>), Arr(<<StrV(Stringify(LooseCvValue))>>),
              Arr(<<StrV(Stringify(Obj(<< <<<<"skills">>, Arr(<<Unprintable>>)>> >>)))>>) } }
  \cup
  { Rejected(e) :
      e \in { ErrorOf(<<"429", SP, "Rate", SP, "limit", SP, "reached">>),
              ErrorOf(<<"Rate", SP, "Limit", SP, "exceeded">>),
              ErrorOf(<<"429", SP, "invalid", SP, "request">>),
              ErrorOf(<<"401", SP, "Incorrect", SP, "API", SP, "key">>),
              ErrorOf(<<"500", SP, "Internal", SP, "error">>),
              ErrorOf(<<"Connection", SP, "error.">>),
              ThrownValue(<<"boom">>) } }

\* the upstream errors that report a rate limit
RateLimitErrors ==
  { ErrorOf(<<"429", SP, "Rate", SP, "limit", SP, "reached">>),
    ErrorOf(<<"Rate", SP, "Limit", SP, "exceeded">>),
    ErrorOf(<<"429", SP, "invalid", SP, "request">>) }

LostMessages == { <<"Load failed">>, <<"Network", SP, "down">>, <<"boom">> }

CvInit ==
  /\ entry \in {"form", "action"}
  /\ upload \in Uploads
  /\ envKey \in EnvKeys
  /\ cpc = IF entry = "form" THEN "handleParse" ELSE "file"
  /\ extracted = FALSE /\ calls = <<>> /\ clock = 0
  /\ caught = ErrorOf(<<>>) /\ completion = Completion(Undefined)
  /\ result = NoResult
  /\ parsing = FALSE /\ uiError = <<>> /\ uiParsed = Null
  /\ GapIdle /\ PatIdle /\ ImpIdle /\ RenIdle /\ DiscIdle /\ CacheIdle /\ MapIdle /\ SectIdle /\ FitIdle /\ AuthIdle /\ EarlyIdle /\ FormIdle /\ FlightIdle

CvNext ==
  \/ handleParse /\ UNCHANGED <<gapVars, patVars, impVars, renVars, discVars, cacheVars, mapVars, sectVars, fitVars, authVars, earlyVars, formVars, flightVars>>
  \/ CheckFile /\ UNCHANGED <<gapVars, patVars, impVars, renVars, discVars, cacheVars, mapVars, sectVars, fitVars, authVars, earlyVars, formVars, flightVars>>
  \/ ReadFile /\ UNCHANGED <<gapVars, patVars, impVars, renVars, discVars, cacheVars, mapVars, sectVars, fitVars, authVars, earlyVars, formVars, flightVars>>
  \/ ExtractText /\ UNCHANGED <<gapVars, patVars, impVars, renVars, discVars, cacheVars, mapVars, sectVars, fitVars, authVars, earlyVars, formVars, flightVars>>
  \/ CheckKey /\ UNCHANGED <<gapVars, patVars, impVars, renVars, discVars, cacheVars, mapVars, sectVars, fitVars, authVars, earlyVars, formVars, flightVars>>
  \/ (\E outcome \in Outcomes : CallOpenAI(outcome))
       /\ UNCHANGED <<gapVars, patVars, impVars, renVars, discVars, cacheVars, mapVars, sectVars, fitVars, authVars, earlyVars, formVars, flightVars>>
  \/ RetryDelay /\ UNCHANGED <<gapVars, patVars, impVars, renVars, discVars, cacheVars, mapVars, sectVars, fitVars, authVars, earlyVars, formVars, flightVars>>
  \/ (\E outcome \in Outcomes : RetryCall(outcome))
       /\ UNCHANGED <<gapVars, patVars, impVars, renVars, discVars, cacheVars, mapVars, sectVars, fitVars, authVars, earlyVars, formVars, flightVars>>
  \/ ReadCompletionOfCV /\ UNCHANGED <<gapVars, patVars, impVars, renVars, discVars, cacheVars, mapVars, sectVars, fitVars, authVars, earlyVars, formVars, flightVars>>
  \/ CatchOpenAIError /\ UNCHANGED <<gapVars, patVars, impVars, renVars, discVars, cacheVars, mapVars, sectVars, fitVars, authVars, earlyVars, formVars, flightVars>>
  \/ ReturnResult /\ UNCHANGED <<gapVars, patVars, impVars, renVars, discVars, cacheVars, mapVars, sectVars, fitVars, authVars, earlyVars, formVars, flightVars>>
  \/ (\E rawMessage \in LostMessages : ConnectionLost(rawMessage))
       /\ UNCHANGED <<gapVars, patVars, impVars, renVars, discVars, cacheVars, mapVars, sectVars, fitVars, authVars, earlyVars, formVars, flightVars>>

CvSpec == CvInit /\ [][CvNext]_vars

----------------------------------------------------------------------------
(* Properties of the CV upload *)

RateLimited(call) == call.outcome.failed /\ call.outcome.err \in RateLimitErrors

\* C13: callOpenAI is called at most twice per request; there is a second
\* call exactly when the first one failed with a rate-limit error, and it is
\* made no sooner than the fixed delay after the first; a first call that
\* failed otherwise is not repeated; and when the second call fails too the
\* request returns {success: false, error}.
C13_SingleRetry ==
  /\ Len(calls) <= 2
  /\ Len(calls) = 2 => (RateLimited(calls[1]) /\ calls[2].at >= calls[1].at + RetryDelayMs)
  /\ (cpc \in {"completion", "catch", "return"} /\ calls # <<>> /\ RateLimited(calls[1]))
       => Len(calls) = 2
  /\ (cpc = "return" /\ Len(calls) = 2 /\ calls[2].outcome.failed) => ~result.success

\* the retry was made and failed, and the failure has been returned
C13_Witness ==
  /\ cpc = "return" /\ Len(calls) = 2 /\ calls[2].outcome.failed
  /\ ~RateLimited(calls[2]) /\ result = Failure(<<"500", SP, "Internal", SP, "error">>)

Oversized == upload.kind = "file" /\ upload.size > maxSizeBytes
\* extraction of the file fails
Unreadable == upload.kind = "file" /\ upload.body \in {"unreadable", "corrupt"}
RejectedByServer == cpc = "return" => ~result.success

\* C18 as stated: for a file that is unreadable or larger than 5 MB,
\* extractText is never called and callOpenAI is never called.
C18_RejectedBeforeExtraction ==
  (Oversized \/ Unreadable) => (~extracted /\ calls = <<>> /\ RejectedByServer)

\* C18, amended: a file larger than 5 MB chosen in the form is refused by
\* handleParse before the server action is called; what is no file, cannot
\* be read into memory or is empty is refused by parsePdfWithAI before
\* extractText is called; a file whose extraction fails or gives no text is
\* refused once extraction has been tried; none of them leads to a call of
\* callOpenAI.
C18_RejectedWithoutLLM ==
  /\ (entry = "form" /\ Oversized)
       => (/\ cpc \in {"handleParse", "done"} /\ ~extracted /\ calls = <<>>
           /\ result = NoResult
           /\ cpc = "done" => uiError = <<"PDF is too large (max 5 MB).">>)
  /\ (upload.kind # "file" \/ upload.body = "unreadable" \/ upload.size = 0)
       => (~extracted /\ calls = <<>> /\ RejectedByServer)
  /\ (upload.kind = "file" /\ upload.body \in {"corrupt", "blank", "scanned"})
       => (calls = <<>> /\ RejectedByServer)

\* a corrupt file has been through extractText and is refused
C18_Witness ==
  /\ upload.kind = "file" /\ upload.body = "corrupt" /\ upload.size <= maxSizeBytes
  /\ extracted /\ cpc = "return" /\ ~result.success /\ calls = <<>>

----------------------------------------------------------------------------
(* The discovery endpoint: POST and its outbound calls *)

\* if (targetResults.length < 8), and .slice(0, 3) of the peers
PeerThreshold == 8
MaxPeers == 3

\* a NextResponse.json body with its status
ErrorResponse(status, error) == [status |-> status, error |-> error, body |-> "error"]
OkResponse(body) == [status |-> 200, error |-> <<>>, body |-> body]
Unanswered == [status |-> 0, error |-> <<>>, body |-> "none"]

\* one outbound network call: the service and what is asked of it
Outbound(to, about) == [to |-> to, about |-> about]

\* what a people search gives: an error, or raw results of which the ranking
\* keeps some (those with 500 followers or more when there are any)
SearchFailed(message) == [failed |-> TRUE, message |-> message, raw |-> 0, ranked |-> 0]
SearchFound(raw, ranked) == [failed |-> FALSE, message |-> <<>>, raw |-> raw, ranked |-> ranked]

\* the answer of the framework to a handler that rejected
Unhandled == [status |-> 500, error |-> <<>>, body |-> "unhandled"]

\* a body that is JSON null cannot be destructured, and this is outside the try
Destructurable(body) == body.shape = "object"

\* if (!targetRole || !targetCompany) return 400
MissingField(body) == ~Truthy(body.targetRole) \/ ~Truthy(body.targetCompany)

\* a validation that comes after the first people search
ValidateDiscoveryLate ==
  /\ dpc = "receive"
  /\ IF ~Destructurable(dreq)
     THEN dresp' = Unhandled /\ dpc' = "done" /\ UNCHANGED outbound
     ELSE IF MissingField(dreq)
     THEN /\ outbound' = Append(outbound, Outbound("people search", <<>>))
          /\ dresp' = ErrorResponse(400, <<"targetRole and targetCompany are required">>)
          /\ dpc' = "done"
     ELSE dpc' = "search" /\ UNCHANGED <<dresp, outbound>>
  /\ UNCHANGED <<dreq, denv, rawCount, targetCount, peers, peerIdx, similarCount>>

ValidateDiscovery ==
  /\ dpc = "receive"
  /\ IF ~Destructurable(dreq)
     THEN dresp' = Unhandled /\ dpc' = "done"
     ELSE IF MissingField(dreq)
     THEN /\ dresp' = ErrorResponse(400, <<"targetRole and targetCompany are required">>)
          /\ dpc' = "done"
     ELSE dpc' = "search" /\ UNCHANGED dresp
  /\ UNCHANGED <<dreq, denv, outbound, rawCount, targetCount, peers, peerIdx, similarCount>>

\* fiberPersonSearch for the target company, then rankFiberResults; fewer
\* than 8 ranked results lead to the peer companies
SearchTarget(outcome) ==
  /\ dpc = "search"
  /\ IF ~denv.fiber
     THEN /\ dresp' = ErrorResponse(500, <<"FIBER_API_KEY is not configured.">>)
          /\ dpc' = "done"
          /\ UNCHANGED <<outbound, rawCount, targetCount>>
     ELSE /\ outbound' = Append(outbound, Outbound("people search", dreq.targetCompany.s))
          /\ IF outcome.failed
             THEN /\ dresp' = ErrorResponse(500, outcome.message)
                  /\ dpc' = "done"
                  /\ UNCHANGED <<rawCount, targetCount>>
             ELSE /\ rawCount' = outcome.raw
                  /\ targetCount' = outcome.ranked
                  /\ dpc' = IF outcome.ranked < PeerThreshold THEN "suggest" ELSE "respond"
                  /\ UNCHANGED dresp
  /\ UNCHANGED <<dreq, denv, peers, peerIdx, similarCount>>

\* a version of the step that keeps every suggested name
SuggestAllPeers(outcome) ==
  /\ dpc = "suggest"
  /\ LET found == IF ~denv.openai \/ outcome.failed THEN <<>> ELSE outcome.names
     IN /\ peers' = found
        /\ peerIdx' = 1
        /\ dpc' = IF found = <<>> THEN "respond" ELSE "peer"
  /\ outbound' = IF denv.openai
                 THEN Append(outbound, Outbound("peer suggestion", dreq.targetCompany.s))
                 ELSE outbound
  /\ UNCHANGED <<dreq, denv, rawCount, targetCount, similarCount, dresp>>

\* suggestPeerCompanies: no call without the OpenAI key, and an error of the
\* call gives no peers; at most three names are kept
SuggestPeers(outcome) ==
  /\ dpc = "suggest"
  /\ LET found == IF ~denv.openai \/ outcome.failed THEN <<>>
                  ELSE SubSeq(outcome.names, 1, Min(MaxPeers, Len(outcome.names)))
     IN /\ peers' = found
        /\ peerIdx' = 1
        /\ dpc' = IF found = <<>> THEN "respond" ELSE "peer"
  /\ outbound' = IF denv.openai
                 THEN Append(outbound, Outbound("peer suggestion", dreq.targetCompany.s))
                 ELSE outbound
  /\ UNCHANGED <<dreq, denv, rawCount, targetCount, similarCount, dresp>>

\* one turn of the loop over the peers: fiberPersonSearch for the peer
SearchPeer(outcome) ==
  /\ dpc = "peer"
  /\ outbound' = Append(outbound, Outbound("people search", peers[peerIdx]))
  /\ IF outcome.failed
     THEN /\ dresp' = ErrorResponse(500, outcome.message)
          /\ dpc' = "done"
          /\ UNCHANGED <<rawCount, similarCount, peerIdx>>
     ELSE /\ rawCount' = rawCount + outcome.raw
          /\ similarCount' = similarCount + outcome.ranked
          /\ peerIdx' = peerIdx + 1
          /\ dpc' = IF peerIdx + 1 > Len(peers) THEN "respond" ELSE "peer"
          /\ UNCHANGED dresp
  /\ UNCHANGED <<dreq, denv, targetCount, peers>>

\* const mode = phase ?? "fiber"
Mode == IF Nullish(dreq.phase) THEN <<"fiber">> ELSE dreq.phase.s

\* the public profiles; in mode "fiber" they are the response
RespondWithProfiles ==
  /\ dpc = "respond"
  /\ IF Mode = <<"fiber">>
     THEN dresp' = OkResponse("profiles") /\ dpc' = "done"
     ELSE dpc' = "auth" /\ UNCHANGED dresp
  /\ UNCHANGED <<dreq, denv, outbound, rawCount, targetCount, peers, peerIdx, similarCount>>

\* supabase.auth.getUser()
GetUser(outcome) ==
  /\ dpc = "auth"
  /\ outbound' = Append(outbound, Outbound("identity", <<>>))
  /\ CASE outcome = "none" ->
            /\ dresp' = ErrorResponse(401, <<"You must be logged in to run gap analysis.">>)
            /\ dpc' = "done"
       [] OTHER -> dpc' = "row" /\ UNCHANGED dresp
  /\ UNCHANGED <<dreq, denv, rawCount, targetCount, peers, peerIdx, similarCount>>

\* the user's saved profile row
LoadProfileRow(outcome) ==
  /\ dpc = "row"
  /\ outbound' = Append(outbound, Outbound("profile row", <<>>))
  /\ CASE outcome = "error" ->
            dresp' = ErrorResponse(500, <<"row error">>) /\ dpc' = "done"
       [] outcome = "none" ->
            /\ dresp' = ErrorResponse(404, <<"No saved profile found for this user.">>)
            /\ dpc' = "done"
       [] OTHER -> dpc' = "llm" /\ UNCHANGED dresp
  /\ UNCHANGED <<dreq, denv, rawCount, targetCount, peers, peerIdx, similarCount>>

\* the Anthropic key is looked at here, then anthropic.messages.create; a
\* completion without text is answered with 500
AnalyseGaps(outcome) ==
  /\ dpc = "llm"
  /\ IF ~denv.anthropic
     THEN /\ dresp' = ErrorResponse(500, <<"ANTHROPIC_API_KEY is not configured.">>)
          /\ UNCHANGED outbound
     ELSE /\ outbound' = Append(outbound, Outbound("llm", <<>>))
          /\ dresp' = CASE outcome = "thrown" -> ErrorResponse(500, <<"Overloaded">>)
                        [] outcome = "none" -> ErrorResponse(500, <<"Gap model returned no content.">>)
                        [] OTHER -> OkResponse("gapAnalysis")
  /\ dpc' = "done"
  /\ UNCHANGED <<dreq, denv, rawCount, targetCount, peers, peerIdx, similarCount>>

\* Requests, environments and upstream answers of the discovery endpoint
MaxFound == 9

DiscoveryField == {Undefined, StrV(<<>>), StrV(<<"Acme">>)}
DiscoveryPhase == {Undefined, StrV(<<"fiber">>), StrV(<<"gap">>)}
DiscoveryBody(shape, role, company, phase) ==
  [shape |-> shape, targetRole |-> role, targetCompany |-> company, phase |-> phase]
DiscoveryBodies ==
  {DiscoveryBody("object", r, c, p) : r \in DiscoveryField, c \in DiscoveryField,
                                      p \in DiscoveryPhase}
    \cup {DiscoveryBody("null", Undefined, Undefined, Undefined)}
Environments == [fiber : BOOLEAN, openai : BOOLEAN, anthropic : BOOLEAN]
SearchOutcomes ==
  {SearchFailed(<<"Fiber AI error 500: down">>)}
    \cup {SearchFound(n, k) : n \in {0, 3, MaxFound}, k \in {0, 1, 3, MaxFound}}
PossibleSearch(o) ==
  o.failed \/ (o.ranked <= o.raw /\ (o.raw > 0 => o.ranked > 0))
PeerOutcomes ==
  {[failed |-> TRUE, names |-> <<>>], [failed |-> FALSE, names |-> <<>>],
   [failed |-> FALSE, names |-> <<<<"Bolt">>, <<"Cord">>>>],
   [failed |-> FALSE, names |-> <<<<"Bolt">>, <<"Cord">>, <<"Dune">>, <<"Echo">>>>]}
LookupOutcomes == {"none", "error", "found"}
LlmOutcomes == {"thrown", "none", "text"}

DiscInit ==
  /\ GapIdle /\ PatIdle /\ ImpIdle /\ RenIdle /\ CvIdle /\ CacheIdle /\ MapIdle /\ SectIdle /\ FitIdle /\ AuthIdle /\ EarlyIdle /\ FormIdle /\ FlightIdle
  /\ dpc = "receive"
  /\ dreq \in DiscoveryBodies
  /\ denv \in Environments
  /\ outbound = <<>>
  /\ rawCount = 0 /\ targetCount = 0 /\ peers = <<>> /\ peerIdx = 1 /\ similarCount = 0
  /\ dresp = Unanswered

DiscNext ==
  /\ \/ ValidateDiscovery
     \/ \E o \in SearchOutcomes : PossibleSearch(o) /\ SearchTarget(o)
     \/ \E o \in PeerOutcomes : SuggestPeers(o)
     \/ \E o \in SearchOutcomes : PossibleSearch(o) /\ SearchPeer(o)
     \/ RespondWithProfiles
     \/ \E o \in LookupOutcomes \ {"error"} : GetUser(o)
     \/ \E o \in LookupOutcomes : LoadProfileRow(o)
     \/ \E o \in LlmOutcomes : AnalyseGaps(o)
  /\ UNCHANGED <<gapVars, patVars, impVars, renVars, cvVars, cacheVars, mapVars, sectVars, fitVars, authVars, earlyVars, formVars, flightVars>>

DiscSpec == DiscInit /\ [][DiscNext]_vars
----------------------------------------------------------------------------
(* The discovery route with the process-wide cache: overlapping requests *)

\* profiles.slice(0, 10), and if (rawResults.length < 5)
ReturnedProfiles == 10
FewResults == 5

\* the records one people search returned: where they were searched, the
\* state of the upstream data they were read from, how many, and whether
\* mapFiberProfile can map them all
Found(about, version, count, mappable) ==
  [failed |-> FALSE, message |-> <<>>, about |-> about, version |-> version,
   count |-> count, mappable |-> mappable]
NotFound(message) ==
  [failed |-> TRUE, message |-> message, about |-> <<>>, version |-> 0, count |-> 0,
   mappable |-> TRUE]

\* rawResults.map(mapFiberProfile): one profile for each record, in order
ProfilesOfSearch(found) ==
  [i \in 1..found.count |-> [company |-> found.about, version |-> found.version, nth |-> i]]
RECURSIVE MappedProfiles(_)
MappedProfiles(raw) ==
  IF raw = <<>> THEN <<>> ELSE ProfilesOfSearch(Head(raw)) \o MappedProfiles(Tail(raw))
Mappable(raw) == \A i \in 1..Len(raw) : raw[i].mappable

\* { profiles: profiles.slice(0, 10), pattern }, the pattern derived from
\* all profiles and the two request fields
DiscoveryResultOf(raw, role, company) ==
  LET mapped == MappedProfiles(raw)
  IN [profiles |-> SubSeq(mapped, 1, Min(ReturnedProfiles, Len(mapped))),
      pattern |-> [over |-> mapped, targetRole |-> role, targetCompany |-> company]]

\* `${targetCompany}::${targetRole}`.toLowerCase()
CacheKey(body) == ToLowerCase(body.targetCompany.s \o <<"::">> \o body.targetRole.s)

\* a request of which nothing has been received yet
NoRequest ==
  [pc |-> "absent", body |-> Null, raw |-> <<>>, peers |-> <<>>, peerIdx |-> 1,
   sent |-> <<>>, resp |-> Unanswered, via |-> "none", sawEntries |-> 0]

Answered(req, resp, via) == [req EXCEPT !.pc = "done", !.resp = resp, !.via = via]
Sending(req, to, about) == [req EXCEPT !.sent = Append(@, Outbound(to, about))]

\* a request arrives and its body is read
MaxRequests == 2

Arrive(body) ==
  /\ arrived + 1 \in DOMAIN creq
  /\ arrived' = arrived + 1
  /\ creq' = [creq EXCEPT ![arrived + 1] = [NoRequest EXCEPT !.pc = "validate", !.body = body]]
  /\ UNCHANGED <<cache, heap, cenv>>

\* from the validation to the first await: 400, or the cached pair, or on
\* to the people search
ValidateOrServeCached(r) ==
  /\ creq[r].pc = "validate"
  /\ LET req == [creq[r] EXCEPT !.sawEntries = Len(heap)]
     IN creq' = [creq EXCEPT ![r] =
          IF ~Destructurable(req.body) THEN Answered(req, Unhandled, "rejected")
          ELSE IF MissingField(req.body)
          THEN Answered(req, ErrorResponse(400, <<"targetRole and targetCompany are required">>),
                        "invalid")
          ELSE IF CacheKey(req.body) \in DOMAIN cache
          THEN Answered(req, OkResponse(heap[cache[CacheKey(req.body)]].obj), "cache")
          ELSE [req EXCEPT !.pc = "search"]]
  /\ UNCHANGED <<cache, heap, cenv, arrived>>

\* fiberPersonSearch(targetRole, targetCompany); fewer than five results
\* lead to the peer companies
CachedSearchTarget(r, outcome) ==
  /\ creq[r].pc = "search"
  /\ LET req == creq[r]
         asked == Sending(req, "people search", req.body.targetCompany.s)
     IN creq' = [creq EXCEPT ![r] =
          IF ~cenv.fiber
          THEN Answered(req, ErrorResponse(500, <<"FIBER_API_KEY is not configured.">>), "error")
          ELSE IF outcome.failed THEN Answered(asked, ErrorResponse(500, outcome.message), "error")
          ELSE [asked EXCEPT !.raw = <<[outcome EXCEPT !.about = req.body.targetCompany.s]>>,
                             !.pc = IF outcome.count < FewResults THEN "suggest" ELSE "store"]]
  /\ UNCHANGED <<cache, heap, cenv, arrived>>

\* suggestPeerCompanies
CachedSuggestPeers(r, outcome) ==
  /\ creq[r].pc = "suggest"
  /\ LET req == creq[r]
         found == IF ~cenv.openai \/ outcome.failed THEN <<>>
                  ELSE SubSeq(outcome.names, 1, Min(MaxPeers, Len(outcome.names)))
         asked == IF cenv.openai
                  THEN Sending(req, "peer suggestion", req.body.targetCompany.s) ELSE req
     IN creq' = [creq EXCEPT ![r] =
          [asked EXCEPT !.peers = found, !.peerIdx = 1,
                        !.pc = IF found = <<>> THEN "store" ELSE "peer"]]
  /\ UNCHANGED <<cache, heap, cenv, arrived>>

\* one turn of the loop over the peers: rawResults = rawResults.concat(more)
CachedSearchPeer(r, outcome) ==
  /\ creq[r].pc = "peer"
  /\ LET req == creq[r]
         peer == req.peers[req.peerIdx]
         asked == Sending(req, "people search", peer)
     IN creq' = [creq EXCEPT ![r] =
          IF outcome.failed THEN Answered(asked, ErrorResponse(500, outcome.message), "error")
          ELSE [asked EXCEPT !.raw = Append(@, [outcome EXCEPT !.about = peer]),
                             !.peerIdx = @ + 1,
                             !.pc = IF req.peerIdx + 1 > Len(req.peers) THEN "store" ELSE "peer"]]
  /\ UNCHANGED <<cache, heap, cenv, arrived>>

\* a store that, for a key already present, overwrites the profiles of the
\* stored object instead of setting a new one
StoreInPlace(r) ==
  /\ creq[r].pc = "store"
  /\ LET req == creq[r]
         key == CacheKey(req.body)
         made == DiscoveryResultOf(req.raw, req.body.targetRole.s, req.body.targetCompany.s)
     IN IF key \in DOMAIN cache
        THEN /\ heap' = [heap EXCEPT ![cache[key]].obj.profiles = made.profiles]
             /\ cache' = cache
             /\ creq' = [creq EXCEPT ![r] = Answered(req, OkResponse(heap'[cache[key]].obj), "fresh")]
        ELSE /\ heap' = Append(heap, [obj |-> made, by |-> r, key |-> key])
             /\ cache' = [k \in DOMAIN cache \cup {key} |->
                            IF k = key THEN Len(heap) + 1 ELSE cache[k]]
             /\ creq' = [creq EXCEPT ![r] = Answered(req, OkResponse(made), "fresh")]
  /\ UNCHANGED <<cenv, arrived>>

\* a store that comes before the mapping, so that what a failing request
\* had gathered is stored too
StoreBeforeMapping(r) ==
  /\ creq[r].pc = "store"
  /\ LET req == creq[r]
         key == CacheKey(req.body)
         made == DiscoveryResultOf(req.raw, req.body.targetRole.s, req.body.targetCompany.s)
     IN /\ heap' = Append(heap, [obj |-> made, by |-> r, key |-> key])
        /\ cache' = [k \in DOMAIN cache \cup {key} |->
                       IF k = key THEN Len(heap) + 1 ELSE cache[k]]
        /\ creq' = [creq EXCEPT ![r] =
             IF Mappable(req.raw) THEN Answered(req, OkResponse(made), "fresh")
             ELSE Answered(req, ErrorResponse(500, <<"exp is null">>), "error")]
  /\ UNCHANGED <<cenv, arrived>>

\* the mapping, the pattern, cache.set(key, result) and the response, with
\* no await between them; a record that cannot be mapped ends in the catch
StoreResult(r) ==
  /\ creq[r].pc = "store"
  /\ LET req == creq[r]
         key == CacheKey(req.body)
         made == DiscoveryResultOf(req.raw, req.body.targetRole.s, req.body.targetCompany.s)
     IN IF ~Mappable(req.raw)
        THEN /\ creq' = [creq EXCEPT ![r] =
                  Answered(req, ErrorResponse(500, <<"exp is null">>), "error")]
             /\ UNCHANGED <<cache, heap>>
        ELSE /\ heap' = Append(heap, [obj |-> made, by |-> r, key |-> key])
             /\ cache' = [k \in DOMAIN cache \cup {key} |->
                            IF k = key THEN Len(heap) + 1 ELSE cache[k]]
             /\ creq' = [creq EXCEPT ![r] = Answered(req, OkResponse(made), "fresh")]
  /\ UNCHANGED <<cenv, arrived>>

\* Requests and upstream answers of the cache-using route
ManyFound == 11

Requests == 1..MaxRequests
CachedBody(role, company) == DiscoveryBody("object", role, company, Undefined)
CachedBodies ==
  {CachedBody(StrV(<<"A">>), StrV(<<"A">>)), CachedBody(StrV(<<"a">>), StrV(<<"a">>)),
   CachedBody(StrV(<<"A">>), StrV(<<"B">>)), CachedBody(StrV(<<"A">>), Undefined),
   DiscoveryBody("null", Undefined, Undefined, Undefined)}
TargetFound ==
  {NotFound(<<"Fiber AI error 500: down">>), Found(<<>>, 1, 3, TRUE),
   Found(<<>>, 2, ManyFound, TRUE), Found(<<>>, 2, ManyFound, FALSE)}
PeerFound ==
  {NotFound(<<"Fiber AI error 500: down">>), Found(<<>>, 1, 3, TRUE), Found(<<>>, 2, 0, TRUE)}
CachedPeerOutcomes ==
  {[failed |-> TRUE, names |-> <<>>], [failed |-> FALSE, names |-> <<<<"Bolt">>>>]}

CacheInit ==
  /\ GapIdle /\ PatIdle /\ ImpIdle /\ RenIdle /\ CvIdle /\ DiscIdle /\ MapIdle /\ SectIdle /\ FitIdle /\ AuthIdle /\ EarlyIdle /\ FormIdle /\ FlightIdle
  /\ cache = <<>>
  /\ heap = <<>>
  /\ creq = [r \in Requests |-> NoRequest]
  /\ cenv \in [fiber : BOOLEAN, openai : BOOLEAN]
  /\ arrived = 0

CacheNext ==
  /\ \/ \E body \in CachedBodies : Arrive(body)
     \/ \E r \in DOMAIN creq : ValidateOrServeCached(r)
     \/ \E r \in DOMAIN creq, o \in TargetFound : CachedSearchTarget(r, o)
     \/ \E r \in DOMAIN creq, o \in CachedPeerOutcomes : CachedSuggestPeers(r, o)
     \/ \E r \in DOMAIN creq, o \in PeerFound : CachedSearchPeer(r, o)
     \/ \E r \in DOMAIN creq : StoreResult(r)
  /\ UNCHANGED <<gapVars, patVars, impVars, renVars, cvVars, discVars, mapVars, sectVars, fitVars, authVars, earlyVars, formVars, flightVars>>

CacheSpec == CacheInit /\ [][CacheNext]_vars

----------------------------------------------------------------------------
(* Properties of the three endpoints taken together *)

\* a process serving one of the three endpoints
EndpointsInit == DiscInit \/ CacheInit \/ RenInit
EndpointsNext == DiscNext \/ CacheNext \/ RenNext
EndpointsSpec == EndpointsInit /\ [][EndpointsNext]_vars

RequiredFieldsError == ErrorResponse(400, <<"targetRole and targetCompany are required">>)

----------------------------------------------------------------------------
(* Properties of the discovery endpoint *)

NotConfigured(name) == <<name \o " is not configured.">>

\* C17: a request that ends with the error of a credential that is not
\* configured (the people-search key, the LLM key of the gap analysis) has
\* had no outbound call made for it.
C17_FailsBeforeAnyCall ==
  (dpc = "done" /\ dresp.body = "error"
     /\ dresp.error \in {NotConfigured("FIBER_API_KEY"), NotConfigured("ANTHROPIC_API_KEY")})
    => outbound = <<>>

----------------------------------------------------------------------------
(* Properties of the cache of the discovery route *)

\* the requests that passed the validation
Keyed(r) ==
  creq[r].pc # "absent" /\ Destructurable(creq[r].body) /\ ~MissingField(creq[r].body)
KeyOf(r) == CacheKey(creq[r].body)

\* the result objects stored for a key among the first n allocated
StoredFor(key, n) == {i \in 1..n : heap[i].key = key}
Latest(is) == CHOOSE i \in is : \A j \in is : j <= i

\* C15: a request that is validated when a result has been stored for its
\* lower-cased key is answered with the pair stored last for that key and
\* sends no upstream call; every key ever stored stays in the cache, bound
\* to the object stored last for it; and every stored object is the
\* response of a request that ended with status 200.
C15_ServedFromCache ==
  /\ \A r \in DOMAIN creq :
       (Keyed(r) /\ creq[r].pc # "validate" /\ StoredFor(KeyOf(r), creq[r].sawEntries) # {})
         => /\ creq[r].pc = "done" /\ creq[r].via = "cache"
            /\ creq[r].sent = <<>>
            /\ creq[r].resp =
                 OkResponse(heap[Latest(StoredFor(KeyOf(r), creq[r].sawEntries))].obj)
  /\ \A r \in DOMAIN creq : creq[r].via = "cache" => creq[r].sent = <<>>
  /\ \A i \in 1..Len(heap) :
       /\ heap[i].key \in DOMAIN cache
       /\ cache[heap[i].key] = Latest(StoredFor(heap[i].key, Len(heap)))
       /\ creq[heap[i].by].pc = "done" /\ creq[heap[i].by].via = "fresh"
       /\ creq[heap[i].by].resp = OkResponse(heap[i].obj)
  /\ \A k \in DOMAIN cache : cache[k] \in 1..Len(heap) /\ heap[cache[k]].key = k

C15_Witness ==
  /\ arrived = 2 /\ creq[1].via = "fresh" /\ creq[2].via = "cache"
  /\ creq[1].body # creq[2].body /\ KeyOf(1) = KeyOf(2)
  /\ creq[2].resp = creq[1].resp /\ Len(creq[1].resp.body.profiles) = ReturnedProfiles
  /\ creq[2].sent = <<>> /\ Len(heap) = 1

\* the pair a request computes from what its own searches returned
ComputedBy(r) ==
  DiscoveryResultOf(creq[r].raw, creq[r].body.targetRole.s, creq[r].body.targetCompany.s)

WholePairs ==
  \A i \in 1..Len(heap) :
    /\ Keyed(heap[i].by) /\ KeyOf(heap[i].by) = heap[i].key
    /\ heap[i].obj = ComputedBy(heap[i].by)
    /\ heap[i].obj.profiles =
         SubSeq(heap[i].obj.pattern.over, 1,
                Min(ReturnedProfiles, Len(heap[i].obj.pattern.over)))

NeverModified ==
  /\ Len(heap') >= Len(heap)
  /\ \A i \in 1..Len(heap) : heap'[i] = heap[i]

\* C16: however the requests interleave, every object that is or was in the
\* cache is the whole {profiles, pattern} pair that one request for that key
\* computed from its own search results, and no step changes an object once
\* it has been stored; overlapping requests for one key only repeat the
\* upstream calls.
C16_NoCorruption == []WholePairs /\ [][NeverModified]_vars

C16_Witness ==
  /\ arrived = 2 /\ creq[1].via = "fresh" /\ creq[2].via = "fresh"
  /\ KeyOf(1) = KeyOf(2) /\ creq[1].sawEntries = 0 /\ creq[2].sawEntries = 0
  /\ creq[1].raw # creq[2].raw /\ creq[1].sent = creq[2].sent
  /\ Len(heap) = 2 /\ heap[1].obj # heap[2].obj

\* the requests answered with status 200
Served(r) == creq[r].pc = "done" /\ creq[r].via \in {"fresh", "cache"}

\* C26 as stated: all successful responses for one cache key carry the same
\* {profiles, pattern} pair, also when the requests overlap, and a key for
\* which a value was served is never bound to a different value afterwards.
C26_OnePairPerKey ==
  /\ \A r1, r2 \in DOMAIN creq :
       (Served(r1) /\ Served(r2) /\ KeyOf(r1) = KeyOf(r2)) => creq[r1].resp = creq[r2].resp
  /\ \A r \in DOMAIN creq :
       Served(r) => heap[cache[KeyOf(r)]].obj = creq[r].resp.body

\* requests that do not overlap: the later one is validated after the
\* earlier one has stored its result, and is answered with the same pair
SequentialSamePair ==
  \A r1, r2 \in DOMAIN creq :
    (Served(r1) /\ Served(r2) /\ KeyOf(r1) = KeyOf(r2) /\ creq[r2].via = "cache")
      => \/ creq[r1].resp = creq[r2].resp
         \/ Cardinality(StoredFor(KeyOf(r1), Len(heap))) > 1

\* Requests whose company or role contains the separator of the key
SeparatedBodies ==
  {CachedBody(StrV(<<"A">>), StrV(<<"A", "::", "B">>)),
   CachedBody(StrV(<<"B", "::", "A">>), StrV(<<"A">>)),
   CachedBody(StrV(<<"b", "::", "a">>), StrV(<<"a">>)),
   CachedBody(StrV(<<"A">>), StrV(<<"B">>))}

KeyNext ==
  /\ \/ \E body \in SeparatedBodies : Arrive(body)
     \/ \E r \in DOMAIN creq : ValidateOrServeCached(r)
     \/ \E r \in DOMAIN creq, o \in TargetFound : CachedSearchTarget(r, o)
     \/ \E r \in DOMAIN creq, o \in CachedPeerOutcomes : CachedSuggestPeers(r, o)
     \/ \E r \in DOMAIN creq, o \in PeerFound : CachedSearchPeer(r, o)
     \/ \E r \in DOMAIN creq : StoreResult(r)
  /\ UNCHANGED <<gapVars, patVars, impVars, renVars, cvVars, discVars, mapVars, sectVars,
                 fitVars, authVars, earlyVars, formVars, flightVars>>

KeySpec == CacheInit /\ [][KeyNext]_vars

\* the request whose stored pair request r was answered with
ServedFrom(r) == heap[Latest(StoredFor(KeyOf(r), creq[r].sawEntries))].by

SameIgnoringCase(a, b) == ToLowerCase(a.s) = ToLowerCase(b.s)

\* C27 as stated: a request is answered with the pair another request
\* stored only if the two target companies are equal ignoring case and the
\* two target roles are equal ignoring case.
C27_OneEntryOnePair ==
  \A r \in DOMAIN creq :
    (creq[r].pc = "done" /\ creq[r].via = "cache")
      => /\ SameIgnoringCase(creq[r].body.targetCompany,
                             creq[ServedFrom(r)].body.targetCompany)
         /\ SameIgnoringCase(creq[r].body.targetRole, creq[ServedFrom(r)].body.targetRole)

\* without the separator inside a company or a role the key tells the
\* pairs apart
SeparatorFree(body) ==
  /\ \A i \in 1..Len(body.targetCompany.s) : body.targetCompany.s[i] # "::"
  /\ \A i \in 1..Len(body.targetRole.s) : body.targetRole.s[i] # "::"
OneEntryOnePairWithoutSeparator ==
  \A r \in DOMAIN creq :
    (creq[r].pc = "done" /\ creq[r].via = "cache"
       /\ SeparatorFree(creq[r].body) /\ SeparatorFree(creq[ServedFrom(r)].body))
      => /\ SameIgnoringCase(creq[r].body.targetCompany,
                             creq[ServedFrom(r)].body.targetCompany)
         /\ SameIgnoringCase(creq[r].body.targetRole, creq[ServedFrom(r)].body.targetRole)

----------------------------------------------------------------------------
(* mapFiberProfile *)

\* a || b || c || d : the first truthy value, the last one otherwise
RECURSIVE FirstTruthy(_)
FirstTruthy(vs) ==
  IF Len(vs) = 1 \/ Truthy(Head(vs)) THEN Head(vs) ELSE FirstTruthy(Tail(vs))

\* the values for (const x of v) goes through: the elements of an array,
\* the characters of a string; anything else is not iterable and throws
Iterable(v) == v.t \in {"array", "string"}
ElementsOf(v) == IF IsArray(v) THEN v.a ELSE [k \in 1..Len(v.s) |-> StrV(<<v.s[k]>>)]

\* the company of one experience
CompanyOfExperience(exp) ==
  LET c == Get(exp, <<"company">>)
  IN IF Truthy(c) /\ TypeofObject(c)
     THEN FirstTruthy(<<Get(c, <<"name">>), Get(exp, <<"company_title">>), StrV(<<>>)>>)
     ELSE IF IsString(c) THEN c
     ELSE IF Truthy(Get(exp, <<"employer_name">>)) THEN Get(exp, <<"employer_name">>)
     ELSE StrV(<<>>)

\* what one turn of the loop over experiencesRaw pushes
ExperienceEntryOf(exp) ==
  LET title == FirstTruthy(<<Get(exp, <<"title">>), Get(exp, <<"role">>),
                            Get(exp, <<"position">>), StrV(<<>>)>>)
      company == CompanyOfExperience(exp)
  IN IF ~Truthy(title) /\ ~Truthy(company) THEN <<>>
     ELSE <<[title |-> title, company |-> company,
             start_date |-> FirstTruthy(<<Get(exp, <<"start_date">>), Get(exp, <<"starts_at">>),
                                         Get(exp, <<"start_date_iso">>), Null>>),
             end_date |-> FirstTruthy(<<Get(exp, <<"end_date">>), Get(exp, <<"ends_at">>),
                                       Get(exp, <<"end_date_iso">>), Null>>),
             description |-> FirstTruthy(<<Get(exp, <<"description">>), Get(exp, <<"summary">>),
                                          Get(exp, <<"responsibilities">>), Null>>)]>>

\* the loop over experiencesRaw: reading exp.title of null or undefined throws
RECURSIVE ExperienceHistory(_)
ExperienceHistory(es) ==
  IF es = <<>> THEN Ret(<<>>)
  ELSE IF Nullish(Head(es)) THEN Thrown
  ELSE LET Push(t) == ExperienceEntryOf(Head(es)) \o t
       IN Map(ExperienceHistory(Tail(es)), Push)

\* the skills: a string is split, anything else must have a map method
SkillsOf(skillsRaw) ==
  IF IsString(skillsRaw) THEN Ret(Pieces(skillsRaw.s, {",", ";", NL}))
  ELSE IF IsArray(skillsRaw) THEN TrimmedStrings(skillsRaw.a)
  ELSE Thrown

\* what one turn of the loop over educationRaw pushes
EducationEntryOf(ed) ==
  IF IsString(ed) THEN <<ed>>
  ELSE IF IsObjectLike(ed)
  THEN LET name == FirstTruthy(<<Get(ed, <<"school">>), Get(ed, <<"school_name">>),
                                 Get(ed, <<"degree">>), StrV(<<>>)>>)
       IN IF Truthy(name) THEN <<name>> ELSE <<>>
  ELSE <<>>

RECURSIVE EducationOf(_)
EducationOf(es) ==
  IF es = <<>> THEN <<>> ELSE EducationEntryOf(Head(es)) \o EducationOf(Tail(es))

\* the SuccessProfile returned
SuccessProfile(name, occupation, history, skills, education) ==
  [full_name |-> name, current_occupation |-> occupation, experience_history |-> history,
   skills |-> skills, education |-> education]

mapFiberProfile(r) ==
  IF Nullish(r) THEN Thrown
  ELSE
    LET full_name == FirstTruthy(<<Get(r, <<"full_name">>), Get(r, <<"name">>),
                                   Get(r, <<"display_name">>), StrV(<<"Unknown">>)>>)
        headline == FirstTruthy(<<Get(r, <<"headline">>), Get(r, <<"current_title">>),
                                  Get(r, <<"current_position">>), StrV(<<>>)>>)
        experiencesRaw == FirstTruthy(<<Get(r, <<"experience">>), Get(r, <<"experiences">>),
                                        Get(r, <<"employment_history">>), Arr(<<>>)>>)
        skillsRaw == FirstTruthy(<<Get(r, <<"skills">>), Get(r, <<"skill_tags">>), Arr(<<>>)>>)
        educationRaw == FirstTruthy(<<Get(r, <<"education">>), Get(r, <<"education_history">>),
                                      Arr(<<>>)>>)
        history == IF Iterable(experiencesRaw)
                   THEN ExperienceHistory(ElementsOf(experiencesRaw)) ELSE Thrown
        skills == SkillsOf(skillsRaw)
    IN IF ~history.ok \/ ~skills.ok \/ ~Iterable(educationRaw) THEN Thrown
       ELSE Ret(SuccessProfile(full_name,
                               IF Truthy(headline) THEN headline
                               ELSE IF history.v # <<>> THEN history.v[1].title
                               ELSE StrV(<<"Unknown">>),
                               history.v, skills.v, EducationOf(ElementsOf(educationRaw))))

MapProfile ==
  /\ fpc = "call"
  /\ mappedProfile' = mapFiberProfile(fiberRaw)
  /\ fpc' = "done"
  /\ UNCHANGED fiberRaw

\* Records of the people search
Own(key, value) == <<key, value>>
NameMembers ==
  {<<>>, <<Own(<<"full_name">>, StrV(<<"Ann">>))>>, <<Own(<<"display_name">>, StrV(<<"Ann">>))>>,
   <<Own(<<"full_name">>, StrV(<<>>)), Own(<<"name">>, Num("7"))>>}
HeadlineMembers ==
  {<<>>, <<Own(<<"headline">>, StrV(<<"Analyst">>))>>,
   <<Own(<<"current_title">>, Null), Own(<<"current_position">>, StrV(<<"Analyst">>))>>}
OneExperience ==
  Obj(<<Own(<<"title">>, StrV(<<"Analyst">>)),
        Own(<<"company">>, Obj(<<Own(<<"name">>, StrV(<<"Acme">>))>>))>>)
ExperienceValues ==
  {Arr(<<>>), Arr(<<OneExperience>>),
   Arr(<<Obj(<<Own(<<"employer_name">>, StrV(<<"Acme">>))>>)>>),
   Arr(<<OneExperience, Null>>), StrV(<<"Analyst">>), Num("7"), Obj(<<>>), Null}
ExperienceMembers ==
  {<<>>} \cup {<<Own(<<"experience">>, v)>> : v \in ExperienceValues}
         \cup {<<Own(<<"employment_history">>, Arr(<<OneExperience>>))>>}
SkillsValues ==
  {Arr(<<>>), Arr(<<StrV(<<SP, "SQL">>), Num("7"), StrV(<<>>)>>), StrV(<<"SQL", ",", SP, "Excel">>),
   Num("7"), Obj(<<Own(<<"SQL">>, Num("7"))>>),
   Arr(<<Obj(<<Own(<<"toString">>, Num("7"))>>)>>)}
SkillsMembers ==
  {<<>>} \cup {<<Own(<<"skills">>, v)>> : v \in SkillsValues}
EducationValues ==
  {Arr(<<StrV(<<"IIT">>), Null, Obj(<<Own(<<"degree">>, StrV(<<"MBA">>))>>)>>),
   StrV(<<"IIT">>), Bool(TRUE), Obj(<<>>)}
EducationMembers ==
  {<<>>} \cup {<<Own(<<"education">>, v)>> : v \in EducationValues}
FiberRecords ==
  {Null, Undefined, StrV(<<"Ann">>)}
    \cup {Obj(n \o h \o e \o k \o d) : n \in NameMembers, h \in HeadlineMembers,
                                       e \in ExperienceMembers, k \in SkillsMembers,
                                       d \in EducationMembers}

MapInit ==
  /\ GapIdle /\ PatIdle /\ ImpIdle /\ RenIdle /\ CvIdle /\ DiscIdle /\ CacheIdle /\ SectIdle /\ FitIdle /\ AuthIdle /\ EarlyIdle /\ FormIdle /\ FlightIdle
  /\ fpc = "call"
  /\ fiberRaw \in FiberRecords
  /\ mappedProfile = Null

MapNext ==
  MapProfile /\ UNCHANGED <<gapVars, patVars, impVars, renVars, cvVars, discVars, cacheVars, sectVars, fitVars, authVars, earlyVars, formVars, flightVars>>

MapSpec == MapInit /\ [][MapNext]_vars

----------------------------------------------------------------------------
(* Properties of mapFiberProfile *)

\* none of the keys holds a truthy value in the record
NoneOf(r, keys) == \A k \in keys : ~Truthy(Get(r, <<k>>))

\* C19: whatever the record, the call returns a profile; without a name key
\* full_name is "Unknown", without a headline key and without experience
\* current_occupation is "Unknown", and without their keys
\* experience_history, skills and education are empty.
C19_NeverRaises ==
  fpc = "done" =>
    /\ mappedProfile.ok
    /\ NoneOf(fiberRaw, {"full_name", "name", "display_name"})
         => mappedProfile.v.full_name = StrV(<<"Unknown">>)
    /\ NoneOf(fiberRaw, {"experience", "experiences", "employment_history"})
         => mappedProfile.v.experience_history = <<>>
    /\ NoneOf(fiberRaw, {"headline", "current_title", "current_position", "experience",
                         "experiences", "employment_history"})
         => mappedProfile.v.current_occupation = StrV(<<"Unknown">>)
    /\ NoneOf(fiberRaw, {"skills", "skill_tags"}) => mappedProfile.v.skills = <<>>
    /\ NoneOf(fiberRaw, {"education", "education_history"}) => mappedProfile.v.education = <<>>

----------------------------------------------------------------------------
(* Letter case in the two rankings of deriveSuccessPattern *)

\* a title or skill without its letter case and surrounding whitespace
Folded(s) == Trim(ToLowerCase(s))
FoldedAll(xs) == NonEmptyKeys([k \in 1..Len(xs) |-> Folded(xs[k])])

\* no two entries of r differ only in letter case or surrounding whitespace
OncePerFolded(r) ==
  \A i \in 1..Len(r) : \A j \in 1..Len(r) : Folded(r[i]) = Folded(r[j]) => i = j

\* C20: in common_previous_roles and in top_skills_delta no two entries
\* differ only in letter case or surrounding whitespace, and along either
\* list the number of occurrences, counted without case and surrounding
\* whitespace, never increases.
C20_CountedWithoutCase ==
  ppc = "done" =>
    /\ OncePerFolded(pattern.common_previous_roles)
    /\ OncePerFolded(pattern.top_skills_delta)
    /\ CountsNeverIncrease(FoldedAll(pattern.common_previous_roles), FoldedAll(goldenRoles))
    /\ CountsNeverIncrease(FoldedAll(pattern.top_skills_delta), FoldedAll(allSkills))

----------------------------------------------------------------------------
(* The unwrapped summary of the gap phase *)

\* the outer object carries fields of its own beside overallSummary
OuterCarriesFields == upstream.outer \in {"empties", "other"}

\* C21: when overallSummary holds the serialisation of a report G and the
\* outer object carries fields of its own as well, each of the five fields
\* of the response is the one of G (G defines all five).
C21_InnerPreferred ==
  (GapAnswered /\ upstream.kind = "double" /\ upstream.depth = 1 /\ OuterCarriesFields
     /\ ~ReportHasFence(upstream.report))
    => /\ response.status = 200
       /\ response.gapAnalysis.overallSummary = upstream.report.overallSummary
       /\ response.gapAnalysis.trajectoryFit = upstream.report.trajectoryFit
       /\ response.gapAnalysis.careerAnchors = upstream.report.careerAnchors
       /\ response.gapAnalysis.skillGaps = upstream.report.skillGaps
       /\ response.gapAnalysis.concreteActions = upstream.report.concreteActions

----------------------------------------------------------------------------
(* safeSectionText on its own *)

CallSafeSectionText ==
  /\ spc = "call"
  /\ sectionText' = safeSectionText(sectionValue)
  /\ spc' = "done"
  /\ UNCHANGED sectionValue

\* Values a section can hold: JSON values, their serialisations bare, padded
\* and after a lead-in, and objects that carry them as a summary
SectionPayloads ==
  { StrV(<<"Strong", SP, "fit">>), StrV(<<>>), Num("42"), Null, Bool(TRUE),
    Arr(<<Num("1"), Num("7")>>), Arr(<<>>), Arr(<<StrV(<<"sql">>)>>),
    Obj(<<>>), Obj(<< <<<<"a">>, Num("1")>> >>),
    Obj(<< <<<<"overallSummary">>, StrV(<<"Strong", SP, "fit">>)>> >>),
    Obj(<< <<<<"trajectoryFit">>, StrV(<<SP, "High">>)>>, <<<<"a">>, Num("1")>> >>),
    Obj(<< <<<<"overallSummary">>, Null>>, <<<<"trajectoryFit">>, StrV(<<"Low">>)>> >>),
    Obj(<< <<<<"overallSummary">>, Num("7")>> >>),
    Obj(<< <<<<"toString">>, Num("1")>> >>) }

Carrying(key, v) == Obj(<< <<<<key>>, StrV(Stringify(v))>> >>)

SectionValues ==
  SectionPayloads
    \cup { StrV(Stringify(v)) : v \in SectionPayloads }
    \cup { StrV(<<SP>> \o Stringify(v) \o <<SP, SP>>) : v \in SectionPayloads }
    \cup { StrV(<<"Summary", ":", SP>> \o Stringify(v)) : v \in SectionPayloads }
    \cup { StrV(Stringify(Carrying("overallSummary", v))) : v \in SectionPayloads }
    \cup { StrV(Stringify(Carrying("trajectoryFit", v))) : v \in SectionPayloads }
    \cup { StrV(<<"{", "overallSummary">>), StrV(<<"{", "broken">>) }

SectInit ==
  /\ GapIdle /\ PatIdle /\ ImpIdle /\ RenIdle /\ CvIdle /\ DiscIdle /\ CacheIdle /\ MapIdle /\ FitIdle /\ AuthIdle /\ EarlyIdle /\ FormIdle /\ FlightIdle
  /\ spc = "call"
  /\ sectionValue \in SectionValues
  /\ sectionText = Null

SectNext ==
  CallSafeSectionText
    /\ UNCHANGED <<gapVars, patVars, impVars, renVars, cvVars, discVars, cacheVars, mapVars, fitVars, authVars, earlyVars, formVars, flightVars>>

SectSpec == SectInit /\ [][SectNext]_vars

\* s is the serialisation of a JSON array
SerializedArray(s) == JSONParse(s).ok /\ JSONParse(s).v.t = "array"

\* C24: whatever the value, safeSectionText returns a text that is not the
\* serialisation of a JSON object or of a JSON array.
C24_NeverSerializedJson ==
  spc = "done" =>
    /\ sectionText.ok
    /\ ~SerializedObject(sectionText.v)
    /\ ~SerializedArray(sectionText.v)

----------------------------------------------------------------------------
(* The fit percentage in the PDF and on the dashboard *)

\* the value that stands for no percentage being shown
NotShown == 0 - 1

\* the score of the report endpoint, from the text safeSectionText returned
Score(trajectoryText) ==
  LET lower == ToLowerCase(trajectoryText)
  IN IF Includes(lower, <<"high">>) \/ Includes(lower, <<"strong">>) THEN 85
     ELSE IF Includes(lower, <<"moderate">>) THEN 60
     ELSE IF Includes(lower, <<"low">>) \/ Includes(lower, <<"weak">>) THEN 30
     ELSE 60

\* the bar of the PDF is drawn only for a text that is not empty
DrawnScore(fit) ==
  LET trajectoryText == safeSectionText(StrV(fit))
  IN IF trajectoryText.ok /\ trajectoryText.v # <<>> THEN Score(trajectoryText.v)
     ELSE NotShown

\* the score of DiscoverySection, from String(trajectoryFit ?? "").toLowerCase()
DashboardScore(fit) ==
  LET text == ToLowerCase(fit)
  IN IF fit = <<>> THEN NotShown
     ELSE IF Includes(text, <<"high">>) THEN 85
     ELSE IF Includes(text, <<"moderate">>) THEN 60
     ELSE IF Includes(text, <<"low">>) THEN 30
     ELSE 60

\* the report of one gap analysis is shown on the dashboard and drawn as PDF
ShowFit ==
  /\ fitpc = "show"
  /\ pdfScore' = DrawnScore(fitText)
  /\ dashScore' = DashboardScore(fitText)
  /\ fitpc' = "done"
  /\ UNCHANGED fitText

MaxFitWords == 3
FitWords == {"High", "high", "Moderate", "Low", "low", "strong", "Weak", "fit", SP}
FitTexts == UNION { [1..n -> FitWords] : n \in 0..MaxFitWords }

FitInit ==
  /\ GapIdle /\ PatIdle /\ ImpIdle /\ RenIdle /\ CvIdle /\ DiscIdle /\ CacheIdle /\ MapIdle
  /\ SectIdle /\ AuthIdle /\ EarlyIdle /\ FormIdle /\ FlightIdle
  /\ fitpc = "show"
  /\ fitText \in FitTexts
  /\ pdfScore = 0 /\ dashScore = 0

FitNext ==
  ShowFit /\ UNCHANGED <<gapVars, patVars, impVars, renVars, cvVars, discVars, cacheVars,
                         mapVars, sectVars, authVars, earlyVars, formVars, flightVars>>

FitSpec == FitInit /\ [][FitNext]_vars

\* 85 for "high", else 60 for "moderate", else 30 for "low", else 60
KeywordScore(text) ==
  LET lower == ToLowerCase(text)
  IN IF Includes(lower, <<"high">>) THEN 85
     ELSE IF Includes(lower, <<"moderate">>) THEN 60
     ELSE IF Includes(lower, <<"low">>) THEN 30
     ELSE 60

\* C23: for a trajectoryFit text that shows (it is not blank), the
\* percentage drawn in the PDF is the one the three keywords give, and it
\* is the percentage shown on the dashboard.
C23_SameFitEverywhere ==
  (fitpc = "done" /\ Trim(fitText) # <<>>)
    => /\ pdfScore = KeywordScore(fitText)
       /\ dashScore = pdfScore

----------------------------------------------------------------------------
(* updateSession *)

\* String.prototype.trim with line breaks among the whitespace
RECURSIVE TrimLines(_)
TrimLines(s) ==
  IF s # <<>> /\ IsWs(Head(s)) THEN TrimLines(Tail(s))
  ELSE IF s # <<>> /\ IsWs(s[Len(s)]) THEN TrimLines(SubSeq(s, 1, Len(s) - 1))
  ELSE s

\* (value ?? "").trim().split(/\r?\n/)[0].trim()
FirstLine(value) ==
  LET text == IF Nullish(value) THEN <<>> ELSE value.s
  IN TrimLines(Split(TrimLines(text), NL)[1])

\* NextResponse.next({ request }) and NextResponse.redirect(url)
PassedThrough == [kind |-> "next", to |-> <<>>]
Redirected(path) == [kind |-> "redirect", to |-> path]

\* request.nextUrl.pathname.startsWith("/dashboard")
IsDashboardPath(path) == Len(path) >= 2 /\ SubSeq(path, 1, 2) = <<"/", "dashboard">>

\* up to the await: without the URL or the key the request is passed on
ReadSupabaseEnv ==
  /\ upc = "start"
  /\ IF FirstLine(supabaseEnv.url) = <<>> \/ FirstLine(supabaseEnv.key) = <<>>
     THEN answer' = PassedThrough /\ upc' = "done"
     ELSE upc' = "getUser" /\ UNCHANGED answer
  /\ UNCHANGED <<visit, supabaseEnv, userAsked>>

\* supabase.auth.getUser() and the test that protects /dashboard
ProtectDashboard ==
  /\ upc = "getUser"
  /\ userAsked' = TRUE
  /\ answer' = IF IsDashboardPath(visit.path) /\ ~visit.user
               THEN Redirected(<<"/">>) ELSE PassedThrough
  /\ upc' = "done"
  /\ UNCHANGED <<visit, supabaseEnv>>

VisitPaths ==
  { <<"/">>, <<"/", "dashboard">>, <<"/", "dashboard", "/", "cv">>, <<"/", "dashboard", "s">>,
    <<"/", "api", "/", "discovery">>, <<"/", "Dashboard">> }
EnvValues ==
  { Undefined, StrV(<<>>), StrV(<<SP, NL>>), StrV(<<"x">>), StrV(<<SP, "x", NL, "y">>),
    StrV(<<NL, "x">>) }

AuthInit ==
  /\ GapIdle /\ PatIdle /\ ImpIdle /\ RenIdle /\ CvIdle /\ DiscIdle /\ CacheIdle /\ MapIdle
  /\ SectIdle /\ FitIdle /\ EarlyIdle /\ FormIdle /\ FlightIdle
  /\ upc = "start"
  /\ visit \in [path : VisitPaths, user : BOOLEAN]
  /\ supabaseEnv \in [url : EnvValues, key : EnvValues]
  /\ userAsked = FALSE
  /\ answer = Null

AuthNext ==
  \/ ReadSupabaseEnv /\ UNCHANGED <<gapVars, patVars, impVars, renVars, cvVars, discVars,
                                    cacheVars, mapVars, sectVars, fitVars, earlyVars, formVars, flightVars>>
  \/ ProtectDashboard /\ UNCHANGED <<gapVars, patVars, impVars, renVars, cvVars, discVars,
                                     cacheVars, mapVars, sectVars, fitVars, earlyVars, formVars, flightVars>>

AuthSpec == AuthInit /\ [][AuthNext]_vars

NoUserOnDashboard == IsDashboardPath(visit.path) /\ ~visit.user

\* C25 as stated: a request for a path under /dashboard without a user is
\* answered with a redirect to "/" and never passed through.
C25_DashboardProtected ==
  (upc = "done" /\ NoUserOnDashboard) => answer = Redirected(<<"/">>)

\* with both values configured the request is answered with a redirect
\* after the user was looked up; otherwise it is passed through unasked
ProtectedWhenConfigured ==
  (upc = "done" /\ NoUserOnDashboard)
    => IF FirstLine(supabaseEnv.url) # <<>> /\ FirstLine(supabaseEnv.key) # <<>>
       THEN userAsked /\ answer = Redirected(<<"/">>)
       ELSE ~userAsked /\ answer = PassedThrough

----------------------------------------------------------------------------
(* The earlier report renderer *)

EarlyBottom == 60000       \* if (cursorY - needed < 60)
EarlyTitleOffset == 80000  \* cursorY -= 80 under the title

\* p = ensureSpace(needed); p.drawText(...); cursorY -= step
TextAt(needed, step) == [op |-> "text", needed |-> needed, step |-> step]
\* cursorY -= step alone
Gap(step) == [op |-> "gap", needed |-> 0, step |-> step]

RECURSIVE Times(_, _)
Times(n, ops) == IF n = 0 THEN <<>> ELSE ops \o Times(n - 1, ops)

\* drawSectionTitle
EarlySectionTitle == <<TextAt(30000, 18000)>>
\* drawParagraph of a text that wraps to n lines; nothing for no text
EarlyParagraph(n) == IF n = 0 THEN <<>> ELSE Times(n, <<TextAt(14000, 12000)>>) \o <<Gap(4000)>>
\* drawBullets of n items of one line each; nothing for no item
EarlyBullets(n) ==
  IF n = 0 THEN <<>> ELSE Times(n, <<TextAt(14000, 12000), Gap(2000)>>) \o <<Gap(4000)>>

\* the calls of POST after the title, in order
EarlyBlocks(r) ==
  (IF r.meta = 0 THEN <<>> ELSE Times(r.meta, <<TextAt(14000, 12000)>>) \o <<Gap(8000)>>)
  \o EarlySectionTitle \o EarlyParagraph(r.summary)
  \o EarlySectionTitle \o EarlyParagraph(r.fit)
  \o (IF r.anchors = 0 THEN <<>> ELSE EarlySectionTitle \o EarlyBullets(r.anchors))
  \o (IF r.tech = 0 /\ r.soft = 0 THEN <<>>
      ELSE EarlySectionTitle
           \o (IF r.tech = 0 THEN <<>> ELSE EarlyParagraph(1) \o EarlyBullets(r.tech))
           \o (IF r.soft = 0 THEN <<>> ELSE EarlyParagraph(1) \o EarlyBullets(r.soft)))
  \o (IF r.actions = 0 THEN <<>> ELSE EarlySectionTitle \o EarlyBullets(r.actions))

\* POST up to the title: 400 without gapAnalysis, else the first page,
\* the title on it and the cursor under the title
EarlyReceive ==
  /\ epc = "receive"
  /\ IF ~ereport.given
     THEN /\ ereply' = 400 /\ epc' = "done"
          /\ UNCHANGED <<eblocks, eidx, ecursorY, epages, edrawn>>
     ELSE /\ epages' = 1
          /\ edrawn' = [page |-> 1, y |-> PageHeight - TopOffset - 40000]
          /\ ecursorY' = PageHeight - TopOffset - EarlyTitleOffset
          /\ eblocks' = EarlyBlocks(ereport)
          /\ eidx' = 1
          /\ epc' = "draw"
          /\ UNCHANGED ereply
  /\ UNCHANGED ereport

\* ensureSpace: a new page and the cursor at its top when the block does
\* not fit, and otherwise the constant page, the first one
EarlyEnsureSpace(needed) ==
  IF ecursorY - needed < EarlyBottom
  THEN [page |-> epages + 1, pages |-> epages + 1, y |-> PageHeight - TopOffset]
  ELSE [page |-> 1, pages |-> epages, y |-> ecursorY]

\* const p = ensureSpace(needed); p.drawText(..., y: cursorY); cursorY -= step
EarlyDrawText ==
  /\ epc = "draw" /\ eidx <= Len(eblocks) /\ eblocks[eidx].op = "text"
  /\ LET p == EarlyEnsureSpace(eblocks[eidx].needed)
     IN /\ epages' = p.pages
        /\ edrawn' = [page |-> p.page, y |-> p.y]
        /\ ecursorY' = p.y - eblocks[eidx].step
  /\ eidx' = eidx + 1
  /\ UNCHANGED <<epc, ereport, eblocks, ereply>>

EarlyMoveCursor ==
  /\ epc = "draw" /\ eidx <= Len(eblocks) /\ eblocks[eidx].op = "gap"
  /\ ecursorY' = ecursorY - eblocks[eidx].step
  /\ eidx' = eidx + 1
  /\ UNCHANGED <<epc, ereport, eblocks, epages, edrawn, ereply>>

\* pdfDoc.save() and the response
EarlySave ==
  /\ epc = "draw" /\ eidx > Len(eblocks)
  /\ ereply' = 200 /\ epc' = "done"
  /\ UNCHANGED <<ereport, eblocks, eidx, ecursorY, epages, edrawn>>

MaxEarlyLines == 54
MaxEarlyItems == 2
EarlyReports ==
  [given : {TRUE}, meta : 0..1, summary : {0, 1, MaxEarlyLines - 3, MaxEarlyLines}, fit : 0..1,
   anchors : 0..MaxEarlyItems, tech : 0..1, soft : 0..1, actions : 0..MaxEarlyItems]
  \cup [given : {FALSE}, meta : {0}, summary : {0}, fit : {0}, anchors : {0}, tech : {0},
        soft : {0}, actions : {0}]

EarlyInit ==
  /\ GapIdle /\ PatIdle /\ ImpIdle /\ RenIdle /\ CvIdle /\ DiscIdle /\ CacheIdle /\ MapIdle
  /\ SectIdle /\ FitIdle /\ AuthIdle /\ FormIdle /\ FlightIdle
  /\ epc = "receive"
  /\ ereport \in EarlyReports
  /\ eblocks = <<>> /\ eidx = 0 /\ ecursorY = 0 /\ epages = 0 /\ edrawn = Null /\ ereply = 0

EarlyNext ==
  /\ \/ EarlyReceive
     \/ EarlyDrawText
     \/ EarlyMoveCursor
     \/ EarlySave
  /\ UNCHANGED <<gapVars, patVars, impVars, renVars, cvVars, discVars, cacheVars, mapVars,
                 sectVars, fitVars, authVars, formVars, flightVars>>

EarlySpec == EarlyInit /\ [][EarlyNext]_vars

\* the current renderer and the earlier one
RenderersInit == RenInit \/ EarlyInit
RenderersNext == RenNext \/ EarlyNext
RenderersSpec == RenderersInit /\ [][RenderersNext]_vars

\* C28 as stated: in both renderers, once a new page has been started,
\* the text drawn last is on the page added last.
C28_DrawnOnNewestPage ==
  /\ (rpc # "idle" /\ drawn.kind # "none" /\ pages >= 2) => drawn.page = pages
  /\ (epc # "idle" /\ epages >= 2) => edrawn.page = epages

\* the current renderer alone keeps to it
CurrentDrawsOnNewestPage ==
  (rpc # "idle" /\ drawn.kind # "none" /\ pages >= 2) => drawn.page = pages

----------------------------------------------------------------------------
(* The outbound calls of one discovery request *)

\* one request to the cache-using route, with every answer of the peer
\* suggestion the other route is given
SingleInit ==
  /\ GapIdle /\ PatIdle /\ ImpIdle /\ RenIdle /\ CvIdle /\ DiscIdle /\ MapIdle /\ SectIdle
  /\ FitIdle /\ AuthIdle /\ EarlyIdle /\ FormIdle /\ FlightIdle
  /\ cache = <<>>
  /\ heap = <<>>
  /\ creq = <<NoRequest>>
  /\ cenv \in [fiber : BOOLEAN, openai : BOOLEAN]
  /\ arrived = 0

SingleNext ==
  /\ \/ \E body \in CachedBodies : Arrive(body)
     \/ \E r \in DOMAIN creq : ValidateOrServeCached(r)
     \/ \E r \in DOMAIN creq, o \in TargetFound : CachedSearchTarget(r, o)
     \/ \E r \in DOMAIN creq, o \in PeerOutcomes : CachedSuggestPeers(r, o)
     \/ \E r \in DOMAIN creq, o \in PeerFound : CachedSearchPeer(r, o)
     \/ \E r \in DOMAIN creq : StoreResult(r)
  /\ UNCHANGED <<gapVars, patVars, impVars, renVars, cvVars, discVars, mapVars, sectVars,
                 fitVars, authVars, earlyVars, formVars, flightVars>>

CallsInit == DiscInit \/ SingleInit
CallsNext == DiscNext \/ SingleNext
CallsSpec == CallsInit /\ [][CallsNext]_vars

\* the calls of one kind in a log of outbound calls
CallsTo(log, to) == Cardinality({i \in DOMAIN log : log[i].to = to})

\* the calls of the route with the gap phase
BoundedCalls ==
  dpc # "idle" =>
    /\ CallsTo(outbound, "people search") <= 1 + MaxPeers
    /\ CallsTo(outbound, "peer suggestion") <= 1
    /\ CallsTo(outbound, "people search") > 1
         => targetCount < PeerThreshold /\ CallsTo(outbound, "peer suggestion") = 1
    /\ (dpc \notin {"receive", "search", "suggest"} /\ peers = <<>>)
         => CallsTo(outbound, "people search") <= 1

\* the calls of each request to the cache-using route
CachedBoundedCalls ==
  \A r \in DOMAIN creq :
    /\ CallsTo(creq[r].sent, "people search") <= 1 + MaxPeers
    /\ CallsTo(creq[r].sent, "peer suggestion") <= 1
    /\ CallsTo(creq[r].sent, "people search") > 1
         => creq[r].raw[1].count < FewResults /\ CallsTo(creq[r].sent, "peer suggestion") = 1
    /\ (creq[r].pc \in {"store", "done"} /\ creq[r].peers = <<>>)
         => CallsTo(creq[r].sent, "people search") <= 1

\* the step of the peer suggestion sends no people search and never ends
\* the request: without names it goes on to the response
SuggestionNeverFails ==
  /\ (dpc = "suggest" /\ dpc' # "suggest")
       => /\ dresp' = dresp
          /\ dpc' = IF peers' = <<>> THEN "respond" ELSE "peer"
          /\ CallsTo(outbound', "people search") = 1
          /\ Len(outbound') = Len(outbound) + (IF denv.openai THEN 1 ELSE 0)
  /\ \A r \in DOMAIN creq :
       (creq[r].pc = "suggest" /\ creq'[r].pc # "suggest")
         => /\ creq'[r].resp = creq[r].resp
            /\ creq'[r].pc = IF creq'[r].peers = <<>> THEN "store" ELSE "peer"
            /\ CallsTo(creq'[r].sent, "people search") = 1
            /\ Len(creq'[r].sent) = Len(creq[r].sent) + (IF cenv.openai THEN 1 ELSE 0)

\* C29: one request sends at most four people searches (the target and at
\* most three peers) and at most one peer suggestion; a peer is searched
\* only after the target search gave fewer results than the threshold; and
\* a peer suggestion that fails or is unavailable leaves no peer to search
\* and does not end the request.
C29_BoundedOutboundCalls ==
  [](BoundedCalls /\ CachedBoundedCalls) /\ [][SuggestionNeverFails]_vars

C29_Witness ==
  /\ dpc = "done" /\ dresp.status = 200
  /\ CallsTo(outbound, "people search") = 1 + MaxPeers
  /\ CallsTo(outbound, "peer suggestion") = 1
  /\ Len(peers) = MaxPeers

----------------------------------------------------------------------------
(* handleSave of the upload form *)

\* what the server is like during one call of the action
Server(reach, user, upsert) == [reach |-> reach, user |-> user, upsert |-> upsert]

\* saveProfileToSupabase as its caller sees it: the promise rejects when the
\* server is not reached; otherwise it resolves to a result
saveProfileToSupabase(srv) ==
  IF srv.reach = "lost" THEN Thrown
  ELSE IF ~srv.user THEN Ret([success |-> FALSE, error |-> <<"You must be logged in to save.">>])
  ELSE IF srv.upsert # <<>> THEN Ret([success |-> FALSE, error |-> srv.upsert])
  ELSE Ret([success |-> TRUE, error |-> <<>>])

MaxClicks == 2

\* a click on the save button, which is disabled while saving: handleSave
\* up to the await
handleSave ==
  /\ vpc = "ready" /\ ~saving /\ clicks < MaxClicks
  /\ clicks' = clicks + 1
  /\ IF formParsed = Null
     THEN UNCHANGED <<vpc, saving, formError, saveSuccess>>
     ELSE /\ saving' = TRUE /\ formError' = <<>> /\ saveSuccess' = FALSE
          /\ vpc' = "await"
  /\ UNCHANGED formParsed

\* the await ends: with a result, handleSave clears saving and shows the
\* result; a rejection ends handleSave at the await
SaveReturns(srv) ==
  /\ vpc = "await"
  /\ LET settled == saveProfileToSupabase(srv)
     IN IF ~settled.ok
        THEN UNCHANGED <<saving, formError, saveSuccess>>
        ELSE /\ saving' = FALSE
             /\ IF settled.v.success
                THEN saveSuccess' = TRUE /\ UNCHANGED formError
                ELSE formError' = settled.v.error /\ UNCHANGED saveSuccess
  /\ vpc' = "ready"
  /\ UNCHANGED <<formParsed, clicks>>

\* handleReset, from either of its buttons
handleReset ==
  /\ vpc \in {"ready", "await"}
  /\ formParsed # Null \/ formError # <<>> \/ saveSuccess
  /\ formParsed' = Null /\ formError' = <<>> /\ saveSuccess' = FALSE
  /\ UNCHANGED <<vpc, saving, clicks>>

Servers ==
  {Server(reach, user, upsert) : reach \in {"ok", "lost"}, user \in BOOLEAN,
                                 upsert \in {<<>>, <<"duplicate key">>}}
Evidence == {Bool(TRUE), Bool(FALSE), StrV(<<"led">>)}
ShownCVs ==
  {Null} \cup [entrepreneurial_leadership : Evidence, personal_impact : Evidence]

FormInit ==
  /\ GapIdle /\ PatIdle /\ ImpIdle /\ RenIdle /\ CvIdle /\ DiscIdle /\ CacheIdle /\ MapIdle
  /\ SectIdle /\ FitIdle /\ AuthIdle /\ EarlyIdle /\ FlightIdle
  /\ vpc = "ready"
  /\ formParsed \in ShownCVs
  /\ saving = FALSE /\ formError = <<>> /\ saveSuccess = FALSE /\ clicks = 0

FormReturn ==
  (\E srv \in Servers : SaveReturns(srv))
    /\ UNCHANGED <<gapVars, patVars, impVars, renVars, cvVars, discVars, cacheVars, mapVars,
         sectVars, fitVars, authVars, earlyVars, flightVars>>

FormNext ==
  \/ handleSave /\ UNCHANGED <<gapVars, patVars, impVars, renVars, cvVars, discVars, cacheVars, mapVars,
                  sectVars, fitVars, authVars, earlyVars, flightVars>>
  \/ FormReturn
  \/ handleReset /\ UNCHANGED <<gapVars, patVars, impVars, renVars, cvVars, discVars, cacheVars, mapVars,
                   sectVars, fitVars, authVars, earlyVars, flightVars>>

\* every call of the server action settles: it resolves or it rejects
FormSpec == FormInit /\ [][FormNext]_vars
FairFormSpec == FormSpec /\ WF_vars(FormReturn)

\* C30 as stated: whenever parsing or saving is set it is cleared later,
\* whatever the server call ends with.
C30_BusyFlagsCleared == (parsing ~> ~parsing) /\ (saving ~> ~saving)

\* handleParse: while parsing is set, the call of the action is pending,
\* and every way the call ends clears it
ParsingOnlyWhilePending == parsing => cpc \notin {"handleParse", "done"}

\* the save button left busy by a rejected call
StuckSaving == saving /\ vpc = "ready"

\* from there no click is accepted and no step clears the flag, however
\* many clicks are left
StuckForGood == [][StuckSaving => (saving' /\ vpc' = "ready" /\ clicks' = clicks)]_vars

----------------------------------------------------------------------------
(* The awaits of one discovery request *)

\* an outbound call; n tells the calls of one request apart
Flight(to, n) == [to |-> to, n |-> n]

\* the threshold under which the peers are searched, by route
FewFor(route) == IF route = "cache" THEN FewResults ELSE PeerThreshold

\* what follows the searches: the cache-using route stores and responds,
\* the other one responds in mode fiber and goes on to the user otherwise
AfterSearches == IF qreq.route = "cache" \/ qreq.mode = "fiber" THEN "done" ELSE "auth"

\* whether the call the handler has come to is sent at all: the people
\* search and the gap model test their key first, suggestPeerCompanies
\* returns no peer without its key
Sendable ==
  CASE qstage \in {"target", "peer"} -> qreq.fiber
    [] qstage = "suggest" -> qreq.openai
    [] qstage = "llm" -> qreq.anthropic
    [] OTHER -> TRUE

CallOf(stage) ==
  CASE stage \in {"target", "peer"} -> "people search"
    [] stage = "suggest" -> "peer suggestion"
    [] stage = "auth" -> "identity"
    [] stage = "row" -> "profile row"
    [] OTHER -> "llm"

\* a version of the step that sends the searches of all peers at once
IssueAll ==
  /\ qstage \notin {"idle", "done"} /\ ~qawait
  /\ IF ~Sendable
     THEN /\ qstage' = IF qstage = "suggest" THEN AfterSearches ELSE "done"
          /\ UNCHANGED <<qawait, flying, qlog>>
     ELSE /\ flying' = flying \cup
                 {Flight(CallOf(qstage), Len(qlog) + k) :
                    k \in 1..(IF qstage = "peer" THEN Len(qpeers) ELSE 1)}
          /\ qlog' = qlog \o [k \in 1..(IF qstage = "peer" THEN Len(qpeers) ELSE 1) |->
                                CallOf(qstage)]
          /\ qawait' = TRUE
          /\ UNCHANGED qstage
  /\ UNCHANGED <<qreq, qpeers, qidx>>

\* the handler runs up to its next await: the call is sent and the handler
\* is suspended; a call that is not sent ends the request or gives no peer
IssueCall ==
  /\ qstage \notin {"idle", "done"} /\ ~qawait
  /\ IF ~Sendable
     THEN /\ qstage' = IF qstage = "suggest" THEN AfterSearches ELSE "done"
          /\ UNCHANGED <<qawait, flying, qlog>>
     ELSE /\ flying' = flying \cup {Flight(CallOf(qstage), Len(qlog) + 1)}
          /\ qlog' = Append(qlog, CallOf(qstage))
          /\ qawait' = TRUE
          /\ UNCHANGED qstage
  /\ UNCHANGED <<qreq, qpeers, qidx>>

\* the awaited call settles and the handler goes on to the next one
SettleCall(outcome) ==
  /\ qawait
  /\ flying' = flying \ {Flight(CallOf(qstage), Len(qlog))}
  /\ qawait' = FALSE
  /\ CASE qstage = "target" ->
            /\ qstage' = IF outcome.failed THEN "done"
                         ELSE IF outcome.count < FewFor(qreq.route) THEN "suggest"
                         ELSE AfterSearches
            /\ UNCHANGED <<qpeers, qidx>>
       [] qstage = "suggest" ->
            LET found == IF outcome.failed THEN <<>>
                         ELSE SubSeq(outcome.names, 1, Min(MaxPeers, Len(outcome.names)))
            IN /\ qpeers' = found
               /\ qidx' = 1
               /\ qstage' = IF found = <<>> THEN AfterSearches ELSE "peer"
       [] qstage = "peer" ->
            /\ qstage' = IF outcome.failed THEN "done"
                         ELSE IF qidx + 1 > Len(qpeers) THEN AfterSearches ELSE "peer"
            /\ qidx' = IF outcome.failed THEN qidx ELSE qidx + 1
            /\ UNCHANGED qpeers
       [] qstage \in {"auth", "row"} ->
            /\ qstage' = IF outcome.failed \/ outcome.count = 0 THEN "done"
                         ELSE IF qstage = "auth" THEN "row" ELSE "llm"
            /\ UNCHANGED <<qpeers, qidx>>
       [] OTHER -> qstage' = "done" /\ UNCHANGED <<qpeers, qidx>>
  /\ UNCHANGED <<qreq, qlog>>

Settled(failed, count, names) == [failed |-> failed, count |-> count, names |-> names]
MaxNames == 4
SomeNames == <<<<"Bolt">>, <<"Cord">>, <<"Dune">>, <<"Echo">>, <<"Fern">>>>
Settlings ==
  {Settled(TRUE, 0, <<>>)}
    \cup {Settled(FALSE, n, SubSeq(SomeNames, 1, k)) :
            n \in {0, FewResults, PeerThreshold}, k \in {0, 1, MaxNames}}

FlightInit ==
  /\ GapIdle /\ PatIdle /\ ImpIdle /\ RenIdle /\ CvIdle /\ DiscIdle /\ CacheIdle /\ MapIdle
  /\ SectIdle /\ FitIdle /\ AuthIdle /\ EarlyIdle /\ FormIdle
  /\ qreq \in [route : {"cache", "gap"}, mode : {"fiber", "gap"}, fiber : BOOLEAN,
               openai : BOOLEAN, anthropic : BOOLEAN]
  /\ qstage = "target" /\ qawait = FALSE /\ qpeers = <<>> /\ qidx = 1
  /\ flying = {} /\ qlog = <<>>

FlightNext ==
  /\ \/ IssueCall
     \/ \E outcome \in Settlings : SettleCall(outcome)
  /\ UNCHANGED <<gapVars, patVars, impVars, renVars, cvVars, discVars, cacheVars, mapVars,
                 sectVars, fitVars, authVars, earlyVars, formVars>>

FlightSpec == FlightInit /\ [][FlightNext]_vars

\* C22: the outbound calls of one request are sent one after the other: a
\* call is sent only when no earlier call of the request is unsettled, so
\* at most one is in flight at any time, in the order target search, peer
\* suggestion, peer searches, identity, profile row, gap model.
C22_OneCallInFlight ==
  /\ [](Cardinality(flying) <= 1 /\ (flying # {} <=> qawait))
  /\ [][Len(qlog') > Len(qlog) => (flying = {} /\ Cardinality(flying') = 1)]_vars

C22_Witness ==
  /\ qstage = "done" /\ flying = {}
  /\ qlog = <<"people search", "peer suggestion", "people search", "people search",
              "people search", "identity", "profile row", "llm">>

=============================================================================
